---------------------------- MODULE Spec2Model ----------------------------
(***************************************************************************)
(* Verification model of the Markowitz_2.0 portfolio engine:               *)
(*   - the closed-form Markowitz solver (weight.cpp),                       *)
(*   - the constraint projector RiskConstraints::enforceConstraints,        *)
(*   - the rebalancing controller PortfolioRebalancer and main's loop,      *)
(*   - the transaction-cost model TransactionCostModel,                     *)
(*   - the engine's optimizePortfolio and its efficient-frontier sweep,     *)
(*   - the scalar risk measures of RiskMetrics,                             *)
(*   - the random search PortfolioOptimizer::optimizeWithConstraints.       *)
(*                                                                         *)
(* Numbers.  A C++ double is modelled as an exact extended rational        *)
(* <<n, d>> in lowest terms with d >= 0: d > 0 is the finite value n/d,    *)
(* <<1,0>> and <<-1,0>> are +inf and -inf, <<0,0>> is NaN.  Arithmetic and *)
(* comparisons follow IEEE-754 on these values (x/0, inf*0, comparisons    *)
(* with NaN are false); rounding error is not modelled.                    *)
(***************************************************************************)
EXTENDS Integers, Sequences, FiniteSets, TLC

-----------------------------------------------------------------------------
(* State *)

\* calculateMarkowitzWeights: its arguments, its results, the call's position
VARIABLES mu, sigma, targetReturn, weights, optMu, optSigmaSq, solverPc

\* RiskConstraints: limits_, lastStatus_; enforceConstraints' arguments and
\* locals; the position of the call; callNo, firstProposed and firstResult
\* record the first call when the result is projected a second time.
VARIABLES limits_, lastStatus_, proposedWeights, currentWeights, returns,
          covariance, benchmarkReturns, sectorMap, adv, iteration,
          constraintsSatisfied, enforcePc, enforceResult, callNo,
          firstProposed, firstResult

solverVars == <<mu, sigma, targetReturn, weights, optMu, optSigmaSq, solverPc>>

projVars == <<limits_, lastStatus_, proposedWeights, currentWeights, returns,
              covariance, benchmarkReturns, sectorMap, adv, iteration,
              constraintsSatisfied, enforcePc, enforceResult, callNo,
              firstProposed, firstResult>>

\* EnhancedPortfolioOptimizer (the engine the rebalancer drives): the fields
\* optimizePortfolio publishes.  covariance_ is identified by the window
\* <<startIdx, endIdx>> it was fitted on.
VARIABLES dates_, teWeights_, covariance_, dailyReturn_, benchmarkReturn_

\* PortfolioRebalancer: its fields; main: its position and loop index i.
\* tickOutcome, tickOldWeights and tickCost record what the last call of
\* rebalance() did (its locals oldWeights and transactionCosts).
VARIABLES rebalanceDates_, currentWeights_, currentPeriod_, mainPc, loopIdx,
          tickOutcome, tickOldWeights, tickCost

\* TransactionCostModel: its fields, calculateTotalCost's arguments and result
VARIABLES costs_, avgVolumes_, daysToExecute_, decayRate_, costCurrentWeights,
          costTargetWeights, portfolioValue, totalCost, costPc

\* A direct call of estimateMarketImpact, estimateSlippage or
\* calculateMarketImpactDecay: which one, its arguments, its return value
VARIABLES quoteFn, quoteTradeSize, quoteAvgVolume, quoteValue

\* EnhancedPortfolioOptimizer::optimizePortfolio step by step.  engineSource is
\* the variant of the engine ("weight.cpp" or "part_000"); windowMeans,
\* windowCovariance and windowExcessCovariance are what the loaded data yield
\* for the window (the column means and the two sample covariances);
\* covarianceMat_ and excessCovariance_ are the fields covariance_ and
\* excessCovariance_ as matrices.  optTrace lists the steps the current call
\* has finished, optCalls counts the calls, sweepIdx is the sweep's loop index
\* and sweepFailed records that a solve of the sweep threw in this call.
VARIABLES engineSource, optPc, optTrace, optPeriod, optCalls, windowMeans,
          windowCovariance, windowExcessCovariance, covarianceMat_,
          excessCovariance_, efficientFrontierPoints_, sweepIdx, sweepFailed,
          mptWeights_, dailyVol_, trackingError_

\* RiskMetrics: the function called, its arguments (weights, returns,
\* benchmarkReturns, confidenceLevel, and the scalar numerator and denominator
\* of the ratio functions), the position of the call and its return value
VARIABLES metricFn, metricWeights, metricReturns, metricBenchmark,
          confidenceLevel, metricNumerator, metricDenominator, metricPc,
          metricValue, riskFreeRate

\* PortfolioOptimizer::optimizeWithConstraints: its arguments (currentWeights is
\* searchCurrentWeights here), the locals of its loop, the call's position
VARIABLES searchCurrentWeights, params, optimalWeights, currentReturn, currentRisk,
          iter, candidateWeights, constraintsViolated, searchPc, searchResult

searchVars == <<searchCurrentWeights, params, optimalWeights, currentReturn,
                currentRisk, iter, candidateWeights, constraintsViolated, searchPc,
                searchResult>>

optVars == <<engineSource, optPc, optTrace, optPeriod, optCalls, windowMeans,
             windowCovariance, windowExcessCovariance, covarianceMat_,
             excessCovariance_, efficientFrontierPoints_, sweepIdx, sweepFailed,
             mptWeights_, dailyVol_, trackingError_>>

metricVars == <<metricFn, metricWeights, metricReturns, metricBenchmark,
                confidenceLevel, metricNumerator, metricDenominator, metricPc,
                metricValue, riskFreeRate>>

engineVars == <<dates_, teWeights_, covariance_, dailyReturn_, benchmarkReturn_>>

rebVars == <<rebalanceDates_, currentWeights_, currentPeriod_, mainPc, loopIdx,
             tickOutcome, tickOldWeights, tickCost>>

costVars == <<costs_, avgVolumes_, daysToExecute_, decayRate_, costCurrentWeights,
              costTargetWeights, portfolioValue, totalCost, costPc,
              quoteFn, quoteTradeSize, quoteAvgVolume, quoteValue>>

vars == <<solverVars, projVars, engineVars, rebVars, costVars, optVars, metricVars,
          searchVars>>

-----------------------------------------------------------------------------
(* Integer helpers *)

IAbs(x) == IF x < 0 THEN -x ELSE x

ISign(x) == IF x < 0 THEN -1 ELSE IF x > 0 THEN 1 ELSE 0

RECURSIVE GCD(_, _)
GCD(a, b) == IF b = 0 THEN a ELSE GCD(b, a % b)

RECURSIVE ISqrtIn(_, _, _)
ISqrtIn(n, lo, hi) ==
    IF lo >= hi THEN lo
    ELSE LET mid == (lo + hi + 1) \div 2
         IN IF mid * mid <= n THEN ISqrtIn(n, mid, hi) ELSE ISqrtIn(n, lo, mid - 1)

\* floor of the square root of n >= 0 (the search stays below 46340^2 < 2^31)
ISqrt(n) == ISqrtIn(n, 0, IF n < 46340 THEN n ELSE 46340)

-----------------------------------------------------------------------------
(* Extended rationals: the model of double *)

NaN == <<0, 0>>
PosInf == <<1, 0>>

Norm(n, d) ==
    IF d = 0 THEN <<ISign(n), 0>>
    ELSE LET g == GCD(IAbs(n), IAbs(d))
             s == IF d < 0 THEN -1 ELSE 1
         IN <<(s * n) \div g, (s * d) \div g>>

Q(n, d) == Norm(n, d)

Zero == <<0, 1>>
One == <<1, 1>>

IsNaN(a) == a[1] = 0 /\ a[2] = 0
IsInf(a) == a[1] # 0 /\ a[2] = 0
IsFinite(a) == a[2] > 0

RNeg(a) == <<-a[1], a[2]>>

RAbs(a) == <<IAbs(a[1]), a[2]>>

RAdd(a, b) ==
    IF IsNaN(a) \/ IsNaN(b) THEN NaN
    ELSE IF IsInf(a) /\ IsInf(b) THEN (IF a[1] = b[1] THEN a ELSE NaN)
    ELSE IF IsInf(a) THEN a
    ELSE IF IsInf(b) THEN b
    ELSE LET g == GCD(a[2], b[2])
         IN Norm(a[1] * (b[2] \div g) + b[1] * (a[2] \div g), (a[2] \div g) * b[2])

RSub(a, b) == RAdd(a, RNeg(b))

RMul(a, b) ==
    IF IsNaN(a) \/ IsNaN(b) THEN NaN
    ELSE IF a[2] = 0 \/ b[2] = 0 THEN <<ISign(a[1]) * ISign(b[1]), 0>>
    ELSE LET g1 == GCD(IAbs(a[1]), b[2])
             g2 == GCD(IAbs(b[1]), a[2])
         IN IF a[1] = 0 \/ b[1] = 0 THEN Zero
            ELSE Norm((a[1] \div g1) * (b[1] \div g2), (a[2] \div g2) * (b[2] \div g1))

\* 1/x: 1/0 = +inf (the sign of zero is not modelled), 1/inf = 0
RInv(a) ==
    IF IsNaN(a) THEN NaN
    ELSE IF a[2] = 0 THEN Zero
    ELSE IF a[1] = 0 THEN PosInf
    ELSE IF a[1] < 0 THEN <<-a[2], -a[1]>> ELSE <<a[2], a[1]>>

RDiv(a, b) ==
    IF IsInf(a) /\ IsInf(b) THEN NaN ELSE RMul(a, RInv(b))

\* a < b as the C++ operator (false when either side is NaN)
RLt(a, b) ==
    IF IsNaN(a) \/ IsNaN(b) THEN FALSE
    ELSE IF a[2] = 0 /\ b[2] = 0 THEN a[1] < b[1]
    ELSE IF a[2] = 0 THEN a[1] < 0
    ELSE IF b[2] = 0 THEN b[1] > 0
    ELSE LET g == GCD(a[2], b[2])
         IN a[1] * (b[2] \div g) < b[1] * (a[2] \div g)

RGt(a, b) == RLt(b, a)

REq(a, b) == ~IsNaN(a) /\ ~IsNaN(b) /\ a = b

RLe(a, b) == RLt(a, b) \/ REq(a, b)

RGe(a, b) == RLe(b, a)

\* std::max(a, b) == (a < b) ? b : a     std::min(a, b) == (b < a) ? b : a
StdMax(a, b) == IF RLt(a, b) THEN b ELSE a

StdMin(a, b) == IF RLt(b, a) THEN b ELSE a

IsSquare(n) == ISqrt(n) * ISqrt(n) = n

\* sqrt: NaN below zero, exact on squares of rationals, otherwise rounded
\* down to two decimals.
RSqrt(a) ==
    IF IsNaN(a) \/ a[1] < 0 THEN NaN
    ELSE IF a[2] = 0 THEN PosInf
    ELSE IF IsSquare(a[1]) /\ IsSquare(a[2]) THEN <<ISqrt(a[1]), ISqrt(a[2])>>
    ELSE Norm(ISqrt((a[1] * 10000) \div a[2]), 100)

-----------------------------------------------------------------------------
(* Vectors (sequences of doubles) and matrices (sequences of rows) *)

Range(f) == {f[i] : i \in DOMAIN f}

\* the sequence f as an explicit tuple
Tup(f) == f \o <<>>

RECURSIVE RSum(_)
RSum(v) == IF Len(v) = 0 THEN Zero ELSE RAdd(RSum(SubSeq(v, 1, Len(v) - 1)), v[Len(v)])

Dot(x, y) == RSum(Tup([i \in 1..Len(x) |-> RMul(x[i], y[i])]))

MatVec(M, x) == Tup([i \in 1..Len(M) |-> Dot(M[i], x)])

VecScale(x, c) == Tup([i \in 1..Len(x) |-> RMul(x[i], c)])

VecDiv(x, c) == Tup([i \in 1..Len(x) |-> RDiv(x[i], c)])

VecAdd(x, y) == Tup([i \in 1..Len(x) |-> RAdd(x[i], y[i])])

\* w^T M w
QuadForm(w, M) == Dot(w, MatVec(M, w))

RemoveAt(s, k) == Tup([i \in 1..(Len(s) - 1) |-> IF i < k THEN s[i] ELSE s[i + 1]])

Minor(M, r, c) == Tup([i \in 1..(Len(M) - 1) |-> RemoveAt(RemoveAt(M, r)[i], c)])

RECURSIVE Det(_)
Det(M) ==
    IF Len(M) = 1 THEN M[1][1]
    ELSE RSum(Tup([j \in 1..Len(M) |->
                  RMul(IF j % 2 = 1 THEN M[1][j] ELSE RNeg(M[1][j]), Det(Minor(M, 1, j)))]))

IsSingular(M) == Det(M) = Zero

\* QuantLib inverse(): the adjugate over the determinant; it throws on a
\* singular matrix, which callers test with IsSingular.
Inverse(M) ==
    IF Len(M) = 1 THEN <<<<RInv(M[1][1])>>>>
    ELSE Tup([i \in 1..Len(M) |-> Tup([j \in 1..Len(M) |->
             RDiv(IF (i + j) % 2 = 0 THEN Det(Minor(M, j, i)) ELSE RNeg(Det(Minor(M, j, i))),
                  Det(M))])])

UnitVector(n) == Tup([i \in 1..n |-> One])

-----------------------------------------------------------------------------
(* Closed-form Markowitz solver: EnhancedPortfolioOptimizer::calculateMarkowitzWeights *)

FrontierA(m, s) == Dot(m, MatVec(Inverse(s), m))

FrontierB(m, s, u) == Dot(m, MatVec(Inverse(s), u))

FrontierC(s, u) == Dot(u, MatVec(Inverse(s), u))

FrontierD(m, s, u) ==
    RSub(FrontierA(m, s), RDiv(RMul(FrontierB(m, s, u), FrontierB(m, s, u)), FrontierC(s, u)))

\* inverse(sigma)*u / C * (A - B*tau) / D + inverse(sigma)*mu / B * (tau*B - B*B/C) / D
MarkowitzWeights(m, s, u, tau) ==
    LET A == FrontierA(m, s)
        B == FrontierB(m, s, u)
        C == FrontierC(s, u)
        D == FrontierD(m, s, u)
        t1 == VecDiv(VecScale(VecDiv(MatVec(Inverse(s), u), C), RSub(A, RMul(B, tau))), D)
        t2 == VecDiv(VecScale(VecDiv(MatVec(Inverse(s), m), B),
                              RSub(RMul(tau, B), RDiv(RMul(B, B), C))), D)
    IN VecAdd(t1, t2)

NoWeights == <<>>

\* Bounds of the solver's inputs
MaxMu == 2

ExampleMu == <<Q(1, 1000), Q(2, 1000)>>

ExampleSigma == <<<<Q(1, 10000), Zero>>, <<Zero, Q(4, 10000)>>>>

ExampleTau == Q(15, 10000)

MuChoices == {ExampleMu} \cup {<<Q(a, 1), Q(b, 1)>> : a, b \in (-1)..MaxMu}

SigmaChoices ==
    { ExampleSigma,
      <<<<One, Zero>>, <<Zero, One>>>>,
      <<<<Q(2, 1), One>>, <<One, Q(2, 1)>>>>,
      <<<<One, Q(1, 2)>>, <<Q(1, 2), Q(4, 1)>>>>,
      <<<<One, One>>, <<One, One>>>> }

TauChoices == {Zero, ExampleTau, Q(1, 2), One}

InitSolver ==
    /\ mu \in MuChoices
    /\ sigma \in SigmaChoices
    /\ targetReturn \in TauChoices
    /\ weights = NoWeights
    /\ optMu = Zero
    /\ optSigmaSq = Zero
    /\ solverPc = "call"

\* The call returns the weights; an exception of inverse() is rethrown.
CalculateMarkowitzWeights ==
    /\ solverPc = "call"
    /\ ~IsSingular(sigma)
    /\ LET u == UnitVector(Len(mu))
       IN /\ optMu' = RDiv(FrontierA(mu, sigma), FrontierC(sigma, u))
          /\ optSigmaSq' = RInv(FrontierC(sigma, u))
          /\ weights' = MarkowitzWeights(mu, sigma, u, targetReturn)
    /\ solverPc' = "returned"
    /\ UNCHANGED <<mu, sigma, targetReturn>>
    /\ UNCHANGED <<projVars, engineVars, rebVars, costVars, optVars, metricVars, searchVars>>

CalculateMarkowitzWeightsThrows ==
    /\ solverPc = "call"
    /\ IsSingular(sigma)
    /\ solverPc' = "error"
    /\ UNCHANGED <<mu, sigma, targetReturn, weights, optMu, optSigmaSq>>
    /\ UNCHANGED <<projVars, engineVars, rebVars, costVars, optVars, metricVars, searchVars>>

NextSolver == CalculateMarkowitzWeights \/ CalculateMarkowitzWeightsThrows

\* C1: for every mu, invertible sigma and target return with D # 0 the returned
\* weights satisfy mu^T w = tau and u^T w = 1.
C1_SolverMeetsBothConstraints ==
    (solverPc = "returned"
        /\ IsFinite(FrontierD(mu, sigma, UnitVector(Len(mu))))
        /\ FrontierD(mu, sigma, UnitVector(Len(mu))) # Zero)
    => /\ REq(Dot(mu, weights), targetReturn)
       /\ REq(Dot(UnitVector(Len(mu)), weights), One)

C1_ExampleSolved ==
    solverPc = "returned" /\ mu = ExampleMu /\ sigma = ExampleSigma
        /\ targetReturn = ExampleTau /\ weights = <<Q(1, 2), Q(1, 2)>>

C1_HoldsWhenBNonzero ==
    (solverPc = "returned"
        /\ FrontierB(mu, sigma, UnitVector(Len(mu))) # Zero
        /\ IsFinite(FrontierD(mu, sigma, UnitVector(Len(mu))))
        /\ FrontierD(mu, sigma, UnitVector(Len(mu))) # Zero)
    => /\ REq(Dot(mu, weights), targetReturn)
       /\ REq(Dot(UnitVector(Len(mu)), weights), One)

\* C12: when D = A - B^2/C is 0 (mu collinear with u) the call fails with an
\* error and returns no weight vector; it never returns a vector with
\* non-finite components.
C12_DegenerateFrontierFails ==
    (solverPc # "call" /\ FrontierD(mu, sigma, UnitVector(Len(mu))) = Zero)
    => /\ solverPc = "error"
       /\ weights = NoWeights

C12_DegenerateReturnedNonFinite ==
    /\ solverPc = "returned"
    /\ FrontierD(mu, sigma, UnitVector(Len(mu))) = Zero
    /\ mu = <<One, One>>
    /\ \A i \in 1..Len(weights) : ~IsFinite(weights[i])

\* the single-term closed form [inverse(Sigma)*u*(A - B*tau) + inverse(Sigma)*mu*(C*tau - B)]/D
ClosedFormWeights(m, s, u, tau) ==
    LET A == FrontierA(m, s)
        B == FrontierB(m, s, u)
        C == FrontierC(s, u)
        D == FrontierD(m, s, u)
    IN VecDiv(VecAdd(VecScale(MatVec(Inverse(s), u), RSub(A, RMul(B, tau))),
                     VecScale(MatVec(Inverse(s), m), RSub(RMul(C, tau), B))), D)

\* C19: for every input with invertible sigma and D # 0, B = 0 included, the
\* two-term expression the solver computes yields the same weight vector as
\* the single-term closed form.
C19_TwoTermEqualsClosedForm ==
    (solverPc = "returned"
        /\ IsFinite(FrontierD(mu, sigma, UnitVector(Len(mu))))
        /\ FrontierD(mu, sigma, UnitVector(Len(mu))) # Zero)
    => weights = ClosedFormWeights(mu, sigma, UnitVector(Len(mu)), targetReturn)

C19_BZeroReturnedNaN ==
    /\ solverPc = "returned"
    /\ FrontierB(mu, sigma, UnitVector(Len(mu))) = Zero
    /\ FrontierD(mu, sigma, UnitVector(Len(mu))) = Q(2, 1)
    /\ \A i \in 1..Len(weights) : IsNaN(weights[i])
    /\ \A i \in 1..Len(weights) :
          IsFinite(ClosedFormWeights(mu, sigma, UnitVector(Len(mu)), targetReturn)[i])

\* Wherever B # 0 the two-term expression is the single-term numerator over
\* C*D (D = A - B^2/C, so C*D = A*C - B^2), not over D.
C19_EqualOverCDWhenBNonzero ==
    (solverPc = "returned"
        /\ FrontierB(mu, sigma, UnitVector(Len(mu))) # Zero
        /\ IsFinite(FrontierD(mu, sigma, UnitVector(Len(mu))))
        /\ FrontierD(mu, sigma, UnitVector(Len(mu))) # Zero)
    => LET u == UnitVector(Len(mu))
           closed == VecDiv(ClosedFormWeights(mu, sigma, u, targetReturn), FrontierC(sigma, u))
       IN \A i \in 1..Len(mu) : REq(weights[i], closed[i])

-----------------------------------------------------------------------------
(* RiskConstraints: the check predicates *)

\* ConstraintLimits() as RiskConstraints.hpp initialises it
DefaultLimits ==
    [ maxPositionSize   |-> Q(2, 10),
      minPositionSize   |-> Q(-1, 10),
      maxShortPosition  |-> Q(3, 10),
      maxSectorExposure |-> Q(3, 10),
      maxBetaDeviation  |-> Q(2, 10),
      maxVolatility     |-> Q(15, 100),
      maxTurnover       |-> Q(2, 10),
      minTradeSize      |-> Q(1, 1000),
      minLiquidity      |-> Q(1000000, 1),
      maxADVPercent     |-> Q(1, 10),
      minPositions      |-> 10,
      maxPositions      |-> 50 ]

\* ConstraintStatus() : every flag true, no violation
NewConstraintStatus ==
    [ positionLimitsOK  |-> TRUE,
      sectorLimitsOK    |-> TRUE,
      riskLimitsOK      |-> TRUE,
      tradingLimitsOK   |-> TRUE,
      liquidityLimitsOK |-> TRUE,
      diversificationOK |-> TRUE,
      violations        |-> <<>> ]

allConstraintsMetIgnoringRisk(st) ==
    st.positionLimitsOK /\ st.sectorLimitsOK
        /\ st.tradingLimitsOK /\ st.liquidityLimitsOK /\ st.diversificationOK

allConstraintsMetIgnoringSector(st) ==
    st.positionLimitsOK /\ st.riskLimitsOK
        /\ st.tradingLimitsOK /\ st.liquidityLimitsOK /\ st.diversificationOK

allConstraintsMet(st) ==
    st.positionLimitsOK /\ st.sectorLimitsOK /\ st.riskLimitsOK
        /\ st.tradingLimitsOK /\ st.liquidityLimitsOK /\ st.diversificationOK

Assets(w) == 1..Len(w)

\* sectorMap.at(i) throws std::out_of_range for an asset without a sector
SectorMapThrows(w, sm) == \E i \in Assets(w) : i \notin DOMAIN sm

calculateTotalShortExposure(w) ==
    RSum(Tup([i \in Assets(w) |-> IF RLt(w[i], Zero) THEN RAbs(w[i]) ELSE Zero]))

calculateSectorExposures(w, sm) ==
    [s \in Range(sm) |->
        RSum(Tup([i \in Assets(w) |-> IF sm[i] = s THEN w[i] ELSE Zero]))] @@ <<>>

calculatePortfolioTurnover(old, new) ==
    RDiv(RSum(Tup([i \in Assets(old) |-> RAbs(RSub(new[i], old[i]))])), Q(2, 1))

countActivePositions(w, lim) ==
    Cardinality({i \in Assets(w) : RGt(RAbs(w[i]), lim.minTradeSize)})

checkPositionLimits(w, lim) ==
    /\ \A i \in Assets(w) :
          ~(RGt(w[i], lim.maxPositionSize) \/ RLt(w[i], lim.minPositionSize))
    /\ ~RGt(calculateTotalShortExposure(w), lim.maxShortPosition)

checkSectorExposure(w, sm, lim) ==
    \A s \in Range(sm) :
        ~RGt(RAbs(calculateSectorExposures(w, sm)[s]), lim.maxSectorExposure)

PortfolioVol(w, cov) == RSqrt(QuadForm(w, cov))

checkVolatilityLimit(w, cov, lim) == RLe(PortfolioVol(w, cov), lim.maxVolatility)

checkTurnover(old, new, lim) ==
    RLe(calculatePortfolioTurnover(old, new), lim.maxTurnover)

checkLiquidity(w, a, lim) ==
    \A i \in Assets(w) :
        ~RGt(RMul(RAbs(w[i]), lim.minLiquidity), RMul(a[i], lim.maxADVPercent))

checkDiversification(w, lim) ==
    /\ countActivePositions(w, lim) >= lim.minPositions
    /\ countActivePositions(w, lim) <= lim.maxPositions

\* beta = sum(p[t]*b[t]) / sum(b[t]*b[t]) with p = returns * weights
BetaOf(w, ret, bench) ==
    LET p == MatVec(ret, w)
    IN RDiv(Dot(p, bench), Dot(bench, bench))

checkBetaDeviation(w, ret, bench, lim) ==
    RLe(RAbs(RSub(BetaOf(w, ret, bench), One)), lim.maxBetaDeviation)

updateConstraintStatusFlagOnly(st, conditionMet, violationMessage, flag) ==
    IF conditionMet THEN st ELSE [st EXCEPT ![flag] = FALSE]

\* updateConstraintStatus: a failed check clears its flag and appends its message
updateConstraintStatus(st, conditionMet, violationMessage, flag) ==
    IF conditionMet THEN st
    ELSE [st EXCEPT ![flag] = FALSE, !.violations = Append(st.violations, violationMessage)]

\* checkAllConstraints: the status it stores in lastStatus_ and returns
checkAllConstraints(w, cur, ret, cov, bench, sm, a, lim) ==
    LET s1 == updateConstraintStatus(NewConstraintStatus, checkPositionLimits(w, lim),
                  "Position size limits violated", "positionLimitsOK")
        s2 == updateConstraintStatus(s1, checkSectorExposure(w, sm, lim),
                  "Sector exposure limits violated", "sectorLimitsOK")
        s3 == updateConstraintStatus(s2,
                  checkVolatilityLimit(w, cov, lim) /\ checkBetaDeviation(w, ret, bench, lim),
                  "Risk limits violated", "riskLimitsOK")
        s4 == updateConstraintStatus(s3, checkTurnover(cur, w, lim),
                  "Turnover limits violated", "tradingLimitsOK")
        s5 == updateConstraintStatus(s4, checkLiquidity(w, a, lim),
                  "Liquidity constraints violated", "liquidityLimitsOK")
    IN updateConstraintStatus(s5, checkDiversification(w, lim),
                  "Diversification requirements not met", "diversificationOK")

-----------------------------------------------------------------------------
(* RiskConstraints: the projection passes *)

adjustPositionSizes(w, lim) ==
    Tup([i \in Assets(w) |->
            StdMax(lim.minPositionSize, StdMin(lim.maxPositionSize, w[i]))])

adjustSectorExposures(w, sm, lim) ==
    LET ex == calculateSectorExposures(w, sm)
    IN Tup([i \in Assets(w) |->
              IF RGt(RAbs(ex[sm[i]]), lim.maxSectorExposure)
              THEN RMul(w[i], RDiv(lim.maxSectorExposure, RAbs(ex[sm[i]])))
              ELSE w[i]])

adjustForVolatility(w, cov, lim) ==
    LET portfolioVol == PortfolioVol(w, cov)
    IN IF RGt(portfolioVol, lim.maxVolatility)
       THEN VecScale(w, RDiv(lim.maxVolatility, portfolioVol))
       ELSE w

adjustForLiquidity(w, a, lim) ==
    Tup([i \in Assets(w) |->
            LET maxPosition == RDiv(RMul(a[i], lim.maxADVPercent), lim.minLiquidity)
            IN IF RGt(RAbs(w[i]), maxPosition)
               THEN (IF RGt(w[i], Zero) THEN maxPosition ELSE RNeg(maxPosition))
               ELSE w[i]])

\* one pass of the loop body before the check: the four adjustments in order
ProjectionPass(w, cov, sm, a, lim) ==
    adjustForLiquidity(
        adjustForVolatility(
            adjustSectorExposures(adjustPositionSizes(w, lim), sm, lim), cov, lim), a, lim)

ReturnedWeightsRenormalised(w) == VecDiv(w, RSum(w))

\* return proposedWeights;
ReturnedWeights(w) == w

maxIterationsOneMore == 100 + 1

maxIterationsHalved == 100 \div 2

maxIterations == 100

-----------------------------------------------------------------------------
(* RiskConstraints::enforceConstraints: inputs *)

\* Bound of the proposed weights: each is k/5 with -1 <= k <= MaxWeightFifths
MaxWeightFifths == 2

ProposedChoices ==
    {<<Q(a, 5), Q(b, 5), Q(c, 5)>> : a, b, c \in (-1)..MaxWeightFifths}
        \cup {<<NaN, Q(1, 5), Q(1, 5)>>}

ExampleProposed == <<Q(2, 5), Q(2, 5), Q(1, 5)>>

ExampleReturned == <<Q(1, 4), Q(1, 4), Q(1, 5)>>

\* Limit profiles: the defaults; the defaults for a three-asset book; the
\* spec's clip example (maxPos = 0.25, the other limits wide); a profile with
\* a tight short-exposure limit; the same with a tight sector cap.
SmallBookLimits == [DefaultLimits EXCEPT !.minPositions = 2]

ExampleLimits ==
    [DefaultLimits EXCEPT !.maxPositionSize = Q(1, 4), !.maxSectorExposure = Q(1, 2),
                          !.maxBetaDeviation = One, !.maxVolatility = One,
                          !.maxTurnover = One, !.minPositions = 1]

ShortLimits ==
    [ExampleLimits EXCEPT !.minPositionSize = Q(-1, 5), !.maxShortPosition = Q(1, 5)]

SectorCapLimits == [ShortLimits EXCEPT !.maxSectorExposure = Q(3, 20)]

\* Covariances s^2 * g g^T (portfolio volatility s*|g.w| is then rational):
\* g = (1,1,1), s = 1/5 and g = (1,-1,0), s = 1.
CovCommon ==
    << <<Q(1, 25), Q(1, 25), Q(1, 25)>>,
       <<Q(1, 25), Q(1, 25), Q(1, 25)>>,
       <<Q(1, 25), Q(1, 25), Q(1, 25)>> >>

CovHedged ==
    << <<One, Q(-1, 1), Zero>>,
       <<Q(-1, 1), One, Zero>>,
       <<Zero, Zero, Zero>> >>

\* Two days of returns: every asset tracks the benchmark, or assets 1 and 2
\* move twice as much as the benchmark.
BenchTwoDays == <<Q(1, 100), Q(-1, 100)>>

BenchFlat == <<Zero, Zero>>

RetTracking ==
    << <<Q(1, 100), Q(1, 100), Q(1, 100)>>, <<Q(-1, 100), Q(-1, 100), Q(-1, 100)>> >>

RetLevered ==
    << <<Q(2, 100), Q(2, 100), Q(1, 100)>>, <<Q(-2, 100), Q(-2, 100), Q(-1, 100)>> >>

SectorsDistinct == <<"Technology", "Automotive", "Consumer Staples">>

SectorsShared == <<"Technology", "Technology", "Automotive">>

SectorsPartial == <<"Technology", "Automotive">>

AdvLiquid == <<Q(10500000, 1), Q(8200000, 1), Q(5800000, 1)>>

AdvThin == <<Q(10500000, 1), Q(2000000, 1), Q(500000, 1)>>

AdvThinSecond == <<Q(10500000, 1), Q(500000, 1), Q(2000000, 1)>>

CurEqual == <<Q(1, 3), Q(1, 3), Q(1, 3)>>

Env(lim, cov, ret, bench, sm, a, cur) ==
    [limits |-> lim, covariance |-> cov, returns |-> ret, benchmarkReturns |-> bench,
     sectorMap |-> sm, adv |-> a, currentWeights |-> cur]

\* Environments in which some proposals can be made feasible
EnvChoices ==
    { Env(ExampleLimits, CovCommon, RetTracking, BenchTwoDays, SectorsDistinct, AdvLiquid,
          ExampleReturned),
      Env(ExampleLimits, CovHedged, RetLevered, BenchTwoDays, SectorsShared, AdvThin,
          ExampleReturned),
      Env(ShortLimits, CovCommon, RetTracking, BenchTwoDays, SectorsDistinct, AdvLiquid,
          CurEqual),
      Env(SectorCapLimits, CovHedged, RetTracking, BenchTwoDays, SectorsShared, AdvThinSecond,
          CurEqual) }

\* Environments of the default limits (three assets can never meet
\* minPositions = 10, and seldom the default risk and turnover limits), of a
\* flat benchmark (beta is 0/0) and of a sector map that misses an asset
HardEnvChoices ==
    { Env(SmallBookLimits, CovCommon, RetLevered, BenchTwoDays, SectorsDistinct, AdvLiquid,
          ExampleReturned),
      Env(SmallBookLimits, CovHedged, RetLevered, BenchTwoDays, SectorsShared, AdvThin,
          ExampleReturned),
      Env(DefaultLimits, CovCommon, RetTracking, BenchTwoDays, SectorsDistinct, AdvLiquid,
          CurEqual),
      Env(ExampleLimits, CovCommon, RetTracking, BenchFlat, SectorsDistinct, AdvLiquid,
          ExampleReturned),
      Env(ExampleLimits, CovCommon, RetTracking, BenchTwoDays, SectorsPartial, AdvLiquid,
          ExampleReturned) }

HardProposedChoices ==
    { ExampleProposed, ExampleReturned, <<Q(1, 5), Q(1, 5), Q(1, 5)>>,
      <<Q(MaxWeightFifths, 5), Q(-1, 5), Zero>> }

EnforceInputs ==
    {<<e, w>> : e \in EnvChoices, w \in ProposedChoices}
        \cup {<<e, w>> : e \in HardEnvChoices, w \in HardProposedChoices}

\* enforceConstraints has been called: iteration = 0, constraintsSatisfied = false
InitProjector ==
    /\ \E in \in EnforceInputs :
          /\ limits_ = in[1].limits
          /\ covariance = in[1].covariance
          /\ returns = in[1].returns
          /\ benchmarkReturns = in[1].benchmarkReturns
          /\ sectorMap = in[1].sectorMap
          /\ adv = in[1].adv
          /\ currentWeights = in[1].currentWeights
          /\ proposedWeights = in[2]
    /\ firstProposed = proposedWeights
    /\ lastStatus_ = NewConstraintStatus
    /\ iteration = 0
    /\ constraintsSatisfied = FALSE
    /\ enforcePc = "loop"
    /\ enforceResult = NoWeights
    /\ callNo = 1
    /\ firstResult = NoWeights

projInputs == <<limits_, currentWeights, returns, covariance, benchmarkReturns, sectorMap, adv>>

\* One iteration of the while loop: the four passes, then checkAllConstraints.
EnforceIteration ==
    /\ enforcePc = "loop"
    /\ ~constraintsSatisfied /\ iteration < maxIterations
    /\ ~SectorMapThrows(proposedWeights, sectorMap)
    /\ LET w == ProjectionPass(proposedWeights, covariance, sectorMap, adv, limits_)
           status == checkAllConstraints(w, currentWeights, returns, covariance,
                                         benchmarkReturns, sectorMap, adv, limits_)
       IN /\ proposedWeights' = w
          /\ lastStatus_' = status
          /\ constraintsSatisfied' = allConstraintsMet(status)
    /\ iteration' = iteration + 1
    /\ UNCHANGED <<projInputs, enforcePc, enforceResult, callNo, firstProposed, firstResult>>
    /\ UNCHANGED <<solverVars, engineVars, rebVars, costVars, optVars, metricVars, searchVars>>

\* calculateSectorExposures throws inside the loop; the catch block rethrows.
EnforceMapThrows ==
    /\ enforcePc = "loop"
    /\ ~constraintsSatisfied /\ iteration < maxIterations
    /\ SectorMapThrows(proposedWeights, sectorMap)
    /\ enforcePc' = "failed"
    /\ UNCHANGED <<projInputs, lastStatus_, proposedWeights, iteration, constraintsSatisfied,
                   enforceResult, callNo, firstProposed, firstResult>>
    /\ UNCHANGED <<solverVars, engineVars, rebVars, costVars, optVars, metricVars, searchVars>>

\* The loop has ended with the constraints satisfied: return proposedWeights.
EnforceReturn ==
    /\ enforcePc = "loop"
    /\ ~(~constraintsSatisfied /\ iteration < maxIterations)
    /\ constraintsSatisfied
    /\ enforcePc' = "returned"
    /\ enforceResult' = ReturnedWeights(proposedWeights)
    /\ UNCHANGED <<projInputs, lastStatus_, proposedWeights, iteration, constraintsSatisfied,
                   callNo, firstProposed, firstResult>>
    /\ UNCHANGED <<solverVars, engineVars, rebVars, costVars, optVars, metricVars, searchVars>>

\* The loop has ended without: throw "Failed to satisfy all constraints ...".
EnforceThrow ==
    /\ enforcePc = "loop"
    /\ ~(~constraintsSatisfied /\ iteration < maxIterations)
    /\ ~constraintsSatisfied
    /\ enforcePc' = "failed"
    /\ UNCHANGED <<projInputs, lastStatus_, proposedWeights, iteration, constraintsSatisfied,
                   enforceResult, callNo, firstProposed, firstResult>>
    /\ UNCHANGED <<solverVars, engineVars, rebVars, costVars, optVars, metricVars, searchVars>>

\* The caller projects the returned vector again, every other input unchanged.
EnforceAgain ==
    /\ enforcePc = "returned" /\ callNo = 1
    /\ callNo' = 2
    /\ firstResult' = enforceResult
    /\ proposedWeights' = enforceResult
    /\ enforceResult' = NoWeights
    /\ iteration' = 0
    /\ constraintsSatisfied' = FALSE
    /\ enforcePc' = "loop"
    /\ UNCHANGED <<projInputs, lastStatus_, firstProposed>>
    /\ UNCHANGED <<solverVars, engineVars, rebVars, costVars, optVars, metricVars, searchVars>>

NextProjector ==
    \/ EnforceIteration
    \/ EnforceMapThrows
    \/ EnforceReturn
    \/ EnforceThrow
    \/ EnforceAgain

\* C2: whenever enforceConstraints returns a vector, that vector satisfies every
\* predicate of checkAllConstraints against the same inputs: position bounds and
\* short exposure, sector caps, volatility and beta, turnover, liquidity and the
\* active-position range.
C2_ReturnedIsFeasible ==
    enforcePc = "returned" =>
        /\ checkPositionLimits(enforceResult, limits_)
        /\ checkSectorExposure(enforceResult, sectorMap, limits_)
        /\ checkVolatilityLimit(enforceResult, covariance, limits_)
        /\ checkBetaDeviation(enforceResult, returns, benchmarkReturns, limits_)
        /\ checkTurnover(currentWeights, enforceResult, limits_)
        /\ checkLiquidity(enforceResult, adv, limits_)
        /\ checkDiversification(enforceResult, limits_)

C2_AdjustedAndReturned ==
    enforcePc = "returned" /\ callNo = 1 /\ enforceResult # firstProposed

C3_BoundedLoop ==
    /\ iteration \in 0..100
    /\ (enforcePc = "loop" /\ constraintsSatisfied) => iteration >= 1
    /\ enforcePc = "returned" =>
          constraintsSatisfied /\ allConstraintsMet(lastStatus_) /\ iteration >= 1
    /\ enforcePc = "failed" =>
          /\ enforceResult = NoWeights
          /\ ~constraintsSatisfied
          /\ iteration = 100 \/ SectorMapThrows(proposedWeights, sectorMap)

\* C3: enforceConstraints always ends. Every step of the loop either is one
\* more iteration, taken only while fewer than 100 have run and the predicates
\* did not all hold after the one before, or leaves the loop; the iteration
\* count never exceeds 100; the call returns only once the predicates hold;
\* and when they still do not hold after the 100th iteration (or the sector
\* map throws) it fails and returns no weights.
C3_enforceConstraintsTerminates ==
    /\ []C3_BoundedLoop
    /\ [][enforcePc = "loop" =>
              \/ /\ ~constraintsSatisfied /\ iteration < 100
                 /\ iteration' = iteration + 1 /\ enforcePc' = "loop"
              \/ /\ enforcePc' \in {"returned", "failed"}
                 /\ iteration' = iteration]_vars

C3_FailedAtTheCap ==
    enforcePc = "failed" /\ iteration = 100 /\ ~constraintsSatisfied
        /\ enforceResult = NoWeights

C5_ProjectorIdempotent ==
    callNo = 2 =>
        /\ enforcePc # "failed"
        /\ iteration <= 1
        /\ proposedWeights = firstResult
        /\ (iteration = 1 => constraintsSatisfied)
        /\ enforcePc = "returned" => enforceResult = firstResult

C5_SecondCallReturned ==
    enforcePc = "returned" /\ callNo = 2 /\ iteration = 1
        /\ enforceResult = firstResult /\ firstResult # firstProposed

ViolationIf(failed, message) == IF failed THEN <<message>> ELSE <<>>

\* the messages of the check groups that fail on w, in the order of the checks
FailedGroups(w) ==
    ViolationIf(~checkPositionLimits(w, limits_), "Position size limits violated")
    \o ViolationIf(~checkSectorExposure(w, sectorMap, limits_),
                   "Sector exposure limits violated")
    \o ViolationIf(~(checkVolatilityLimit(w, covariance, limits_)
                       /\ checkBetaDeviation(w, returns, benchmarkReturns, limits_)),
                   "Risk limits violated")
    \o ViolationIf(~checkTurnover(currentWeights, w, limits_), "Turnover limits violated")
    \o ViolationIf(~checkLiquidity(w, adv, limits_), "Liquidity constraints violated")
    \o ViolationIf(~checkDiversification(w, limits_),
                   "Diversification requirements not met")

\* C23: after every call of checkAllConstraints the recorded status describes
\* that call only: the violation list has exactly one entry for each failed
\* check group and none from earlier calls, allConstraintsMet() is true iff
\* the list is empty, and after a successful enforceConstraints
\* getActiveViolations() is empty.
C23_StatusDescribesLastCall ==
    /\ iteration > 0 =>
          /\ lastStatus_.violations = FailedGroups(proposedWeights)
          /\ allConstraintsMet(lastStatus_) <=> lastStatus_.violations = <<>>
          /\ constraintsSatisfied <=> lastStatus_.violations = <<>>
    /\ enforcePc = "returned" => lastStatus_.violations = <<>>

\* C23: the hundredth check of a call that fails lists its two failed groups
\* once each
C23_HundredthStatusListsTwo ==
    /\ enforcePc = "failed"
    /\ iteration = maxIterations
    /\ Len(lastStatus_.violations) = 2
    /\ lastStatus_.violations[1] # lastStatus_.violations[2]
    /\ ~allConstraintsMet(lastStatus_)

WithinPositionBounds(w, lim) ==
    \A i \in Assets(w) : RGe(w[i], lim.minPositionSize) /\ RLe(w[i], lim.maxPositionSize)

LimitsStraddleZero(lim) ==
    RLe(lim.minPositionSize, Zero) /\ RLe(Zero, lim.maxPositionSize)

\* C26: with minPositionSize <= 0 <= maxPositionSize, after one full projection
\* iteration (clip, sector scale, volatility scale, liquidity clip) the weights
\* satisfy the per-asset position bounds, every sector cap, the volatility cap
\* and the liquidity bound simultaneously; a later pass never breaks a bound
\* established by an earlier pass of the same iteration.
C26_IterationEstablishesFourBounds ==
    (iteration > 0 /\ LimitsStraddleZero(limits_)) =>
        /\ WithinPositionBounds(proposedWeights, limits_)
        /\ checkSectorExposure(proposedWeights, sectorMap, limits_)
        /\ checkVolatilityLimit(proposedWeights, covariance, limits_)
        /\ checkLiquidity(proposedWeights, adv, limits_)

\* C26: the first iteration's liquidity clip of a short position raised the net
\* exposure of its sector above the cap that held after the sector pass
C26_LiquidityClipBrokeSectorCap ==
    /\ iteration = 1 /\ callNo = 1
    /\ LimitsStraddleZero(limits_)
    /\ firstProposed = <<Q(2, 5), Q(-1, 5), Q(-1, 5)>>
    /\ proposedWeights = <<Q(1, 4), Q(-1, 20), Q(-3, 20)>>
    /\ LET beforeClip ==
               adjustForVolatility(
                   adjustSectorExposures(adjustPositionSizes(firstProposed, limits_),
                                         sectorMap, limits_), covariance, limits_)
       IN /\ checkSectorExposure(beforeClip, sectorMap, limits_)
          /\ proposedWeights = adjustForLiquidity(beforeClip, adv, limits_)
    /\ ~checkSectorExposure(proposedWeights, sectorMap, limits_)

\* out has, per asset, the sign of in (or is zero) and no larger magnitude
Shrinks(in, out) ==
    \A i \in Assets(in) :
        RLe(RAbs(out[i]), RAbs(in[i])) /\ RGe(RMul(out[i], in[i]), Zero)

ShrinkPreconditions ==
    /\ LimitsStraddleZero(limits_)
    /\ RGt(limits_.minLiquidity, Zero)
    /\ \A i \in 1..Len(adv) : RGt(adv[i], Zero)

\* the four passes of one iteration shrink, each on the output of the one before
IterationShrinks(w) ==
    LET w1 == adjustPositionSizes(w, limits_)
        w2 == adjustSectorExposures(w1, sectorMap, limits_)
        w3 == adjustForVolatility(w2, covariance, limits_)
        w4 == adjustForLiquidity(w3, adv, limits_)
    IN Shrinks(w, w1) /\ Shrinks(w1, w2) /\ Shrinks(w2, w3) /\ Shrinks(w3, w4)

\* C27: with minPositionSize <= 0 <= maxPositionSize and positive ADV and
\* minLiquidity, each of the four projection passes only shrinks: every output
\* weight has the sign of its input (or is zero) and no larger absolute value,
\* so across all iterations of enforceConstraints |w_i| is non-increasing.
C27_PassesOnlyShrink ==
    [][(iteration' = iteration + 1 /\ ShrinkPreconditions) =>
          /\ IterationShrinks(proposedWeights)
          /\ Shrinks(proposedWeights, proposedWeights')]_vars

\* C27 for proposals without NaN: the passes do shrink
C27_FinitePassesShrink ==
    [][(iteration' = iteration + 1 /\ ShrinkPreconditions
           /\ \A i \in Assets(proposedWeights) : IsFinite(proposedWeights[i])) =>
          /\ IterationShrinks(proposedWeights)
          /\ Shrinks(proposedWeights, proposedWeights')]_vars

\* C27: the position clip of the first iteration turned a NaN weight into
\* maxPositionSize
C27_NaNClippedToMaxPosition ==
    /\ iteration = 1 /\ callNo = 1
    /\ ShrinkPreconditions
    /\ IsNaN(firstProposed[1])
    /\ adjustPositionSizes(firstProposed, limits_)[1] = limits_.maxPositionSize
    /\ IsFinite(proposedWeights[1]) /\ RGt(proposedWeights[1], Zero)

\* w meets the four predicates the passes adjust for and fails one of those
\* no pass adjusts for
StuckOnUnadjusted(w) ==
    /\ WithinPositionBounds(w, limits_)
    /\ checkSectorExposure(w, sectorMap, limits_)
    /\ checkVolatilityLimit(w, covariance, limits_)
    /\ checkLiquidity(w, adv, limits_)
    /\ \/ RGt(calculateTotalShortExposure(w), limits_.maxShortPosition)
       \/ ~checkBetaDeviation(w, returns, benchmarkReturns, limits_)
       \/ ~checkTurnover(currentWeights, w, limits_)
       \/ ~checkDiversification(w, limits_)

\* C28: if after some iteration the weights satisfy the position-bound, sector,
\* volatility and liquidity predicates but fail total short exposure, beta
\* deviation, turnover or diversification, every later iteration leaves the
\* weights unchanged and the call fails once 100 iterations have run.
C28_StuckWeightsFailAtTheCap ==
    [][(enforcePc = "loop" /\ iteration >= 1 /\ StuckOnUnadjusted(proposedWeights)) =>
          /\ proposedWeights' = proposedWeights
          /\ ~constraintsSatisfied'
          /\ enforceResult' = NoWeights
          /\ \/ iteration < 100 /\ iteration' = iteration + 1 /\ enforcePc' = "loop"
             \/ iteration = 100 /\ iteration' = iteration /\ enforcePc' = "failed"]_vars

\* C28: a book within the four adjusted bounds, over the short-exposure limit
\* since the first iteration, failed after the hundredth
C28_ShortExposureFailedAtTheCap ==
    /\ enforcePc = "failed" /\ iteration = 100
    /\ StuckOnUnadjusted(proposedWeights)
    /\ RGt(calculateTotalShortExposure(proposedWeights), limits_.maxShortPosition)
    /\ proposedWeights = ProjectionPass(firstProposed, covariance, sectorMap, adv, limits_)

-----------------------------------------------------------------------------
(* Date strings: a std::string is the sequence of its characters *)

DigitChars == <<"0", "1", "2", "3", "4", "5", "6", "7", "8", "9">>

RECURSIVE Digits(_)
Digits(n) ==
    IF n < 10 THEN <<DigitChars[n + 1]>>
    ELSE Append(Digits(n \div 10), DigitChars[(n % 10) + 1])

\* the text M/D/YYYY of a date, as the data file writes it
DateString(mdy) ==
    Digits(mdy[1]) \o <<"/">> \o Digits(mdy[2]) \o <<"/">> \o Digits(mdy[3])

npos == -1

\* std::string::find_last_of(c): 0-based position of the last c, or npos
find_last_of(str, c) ==
    LET hits == {i \in 1..Len(str) : str[i] = c}
    IN IF hits = {} THEN npos
       ELSE (CHOOSE i \in hits : \A j \in hits : j <= i) - 1

\* std::string::substr(pos, n): at most n characters from 0-based pos
substr(str, pos, n) ==
    IF n = npos THEN SubSeq(str, pos + 1, Len(str))
    ELSE SubSeq(str, pos + 1, IF pos + n < Len(str) THEN pos + n ELSE Len(str))

-----------------------------------------------------------------------------
(* PortfolioRebalancer *)

\* string month = date.substr(0, date.find_last_of('/'));
MonthOfDate(date) == substr(date, 0, find_last_of(date, "/"))

\* the loop of updateRebalancingDates from row k on
RECURSIVE updateRebalancingDatesFrom(_, _, _, _)
updateRebalancingDatesFrom(rebalanceDates, allDates, k, currentMonth) ==
    IF k > Len(allDates) THEN rebalanceDates
    ELSE LET date == allDates[k]
             month == MonthOfDate(date)
         IN IF month # currentMonth
            THEN updateRebalancingDatesFrom(Append(rebalanceDates, date), allDates,
                                            k + 1, month)
            ELSE updateRebalancingDatesFrom(rebalanceDates, allDates, k + 1, currentMonth)

updateRebalancingDates(rebalanceDates, allDates) ==
    updateRebalancingDatesFrom(rebalanceDates, allDates, 1, <<>>)

AlwaysRebalancingDate(currentDate, rebalanceDates) == TRUE

\* std::find(rebalanceDates_.begin(), rebalanceDates_.end(), currentDate) != end
IsRebalancingDate(currentDate, rebalanceDates) ==
    \E k \in 1..Len(rebalanceDates) : rebalanceDates[k] = currentDate

ShouldApplyOrEqual(transactionCosts, expectedExcessReturn) ==
    RLe(transactionCosts, expectedExcessReturn)

\* if (transactionCosts < optimizer_.getExpectedExcessReturn())
ShouldApply(transactionCosts, expectedExcessReturn) ==
    RLt(transactionCosts, expectedExcessReturn)

-----------------------------------------------------------------------------
(* The engine as the rebalancer and main use it *)

NUM_PERIODS == 847

TRADING_DAYS_PER_MONTH == 22

\* EnhancedPortfolioOptimizer optimizer("12-stock portfolio.csv", 252);
windowSize_ == 252

\* the rows [startIdx, endIdx) the covariances are fitted on
WindowOf(currentPeriod) ==
    LET startIdx == IF currentPeriod * TRADING_DAYS_PER_MONTH - windowSize_ > 0
                    THEN currentPeriod * TRADING_DAYS_PER_MONTH - windowSize_ ELSE 0
        endIdx == IF NUM_PERIODS < currentPeriod * TRADING_DAYS_PER_MONTH
                  THEN NUM_PERIODS ELSE currentPeriod * TRADING_DAYS_PER_MONTH
    IN <<startIdx, endIdx>>

getExpectedExcessReturn(dailyReturn, benchmarkReturn) == RSub(dailyReturn, benchmarkReturn)

\* Bound of the date column: at most MaxDates rows
MaxDates == 3

\* Trading days of the data file: month ends and starts, and the same day of
\* two years
DateUniverse ==
    { <<6, 29, 2018>>, <<7, 2, 2018>>, <<7, 3, 2018>>, <<8, 1, 2018>>,
      <<6, 29, 2019>>, <<7, 2, 2019>> }

DateBefore(a, b) ==
    \/ a[3] < b[3]
    \/ a[3] = b[3] /\ a[1] < b[1]
    \/ a[3] = b[3] /\ a[1] = b[1] /\ a[2] < b[2]

RECURSIVE ChronologicalColumn(_)
ChronologicalColumn(S) ==
    IF S = {} THEN <<>>
    ELSE LET first == CHOOSE a \in S : \A b \in S \ {a} : DateBefore(a, b)
         IN <<DateString(first)>> \o ChronologicalColumn(S \ {first})

DateColumns ==
    {ChronologicalColumn(S) : S \in {T \in SUBSET DateUniverse : Cardinality(T) <= MaxDates}}

\* Results of one optimisation: the tracking-error weights and dailyReturn_
OptimalWeightsChoices ==
    { <<Q(1, 2), Q(1, 2)>>, <<Q(1, 4), Q(3, 4)>> }

DailyReturnChoices == { Q(15, 10000), Q(5, 10000) }

\* Values of costModel_.calculateCosts(turnover)
CostChoices == { Q(5, 10000), Q(10, 10000), Q(20, 10000) }

\* The engine is constructed (data loaded), the rebalancer is constructed
InitRebalancer ==
    /\ dates_ \in DateColumns
    /\ teWeights_ = NoWeights
    /\ covariance_ = <<0, NUM_PERIODS>>
    /\ dailyReturn_ = Zero
    /\ benchmarkReturn_ = Q(5, 10000)
    /\ rebalanceDates_ = <<>>
    /\ currentWeights_ = NoWeights
    /\ currentPeriod_ = 0
    /\ mainPc = "optimize"
    /\ loopIdx = 0
    /\ tickOutcome = "none"
    /\ tickOldWeights = NoWeights
    /\ tickCost = Zero

\* optimizePortfolio(currentPeriod) returning: the window is refitted when
\* currentPeriod >= 0, then the weights and the metrics are recomputed
optimizePortfolio(currentPeriod, w, r) ==
    /\ covariance_' = IF currentPeriod >= 0 THEN WindowOf(currentPeriod) ELSE covariance_
    /\ teWeights_' = w
    /\ dailyReturn_' = r
    /\ UNCHANGED <<dates_, benchmarkReturn_>>

\* optimizePortfolio(currentPeriod) throwing: the window may have been refitted
optimizePortfolioThrows(currentPeriod) ==
    /\ covariance_' \in {covariance_,
                         IF currentPeriod >= 0 THEN WindowOf(currentPeriod) ELSE covariance_}
    /\ UNCHANGED <<dates_, teWeights_, dailyReturn_, benchmarkReturn_>>

\* main: optimizer.optimizePortfolio(0);
MainOptimizeInitial ==
    /\ mainPc = "optimize"
    /\ \E w \in OptimalWeightsChoices, r \in DailyReturnChoices : optimizePortfolio(0, w, r)
    /\ mainPc' = "initialize"
    /\ UNCHANGED <<rebalanceDates_, currentWeights_, currentPeriod_, loopIdx, tickOutcome,
                   tickOldWeights, tickCost>>
    /\ UNCHANGED <<solverVars, projVars, costVars, optVars, metricVars, searchVars>>

MainOptimizeInitialThrows ==
    /\ mainPc = "optimize"
    /\ optimizePortfolioThrows(0)
    /\ mainPc' = "aborted"
    /\ UNCHANGED <<rebalanceDates_, currentWeights_, currentPeriod_, loopIdx, tickOutcome,
                   tickOldWeights, tickCost>>
    /\ UNCHANGED <<solverVars, projVars, costVars, optVars, metricVars, searchVars>>

\* main: rebalancer.initialize(optimizer.getOptimalWeights());
initialize ==
    /\ mainPc = "initialize"
    /\ currentWeights_' = teWeights_
    /\ rebalanceDates_' = updateRebalancingDates(rebalanceDates_, dates_)
    /\ mainPc' = "loop"
    /\ UNCHANGED <<currentPeriod_, loopIdx, tickOutcome, tickOldWeights, tickCost>>
    /\ UNCHANGED <<solverVars, projVars, engineVars, costVars, optVars, metricVars, searchVars>>

\* main: rebalancer.rebalance(dates[i]) on a date that is not in the calendar
RebalanceNotADate ==
    /\ mainPc = "loop" /\ loopIdx < Len(dates_)
    /\ ~IsRebalancingDate(dates_[loopIdx + 1], rebalanceDates_)
    /\ loopIdx' = loopIdx + 1
    /\ tickOutcome' = "skipped"
    /\ tickOldWeights' = currentWeights_
    /\ tickCost' = Zero
    /\ UNCHANGED <<rebalanceDates_, currentWeights_, currentPeriod_, mainPc>>
    /\ UNCHANGED <<solverVars, projVars, engineVars, costVars, optVars, metricVars, searchVars>>

KeepPeriod(currentPeriod) == currentPeriod

\* currentPeriod_++;
AdvancePeriod(currentPeriod) == currentPeriod + 1

\* main: rebalancer.rebalance(dates[i]) on a calendar date, the optimiser returning
Rebalance ==
    /\ mainPc = "loop" /\ loopIdx < Len(dates_)
    /\ IsRebalancingDate(dates_[loopIdx + 1], rebalanceDates_)
    /\ \E w \in OptimalWeightsChoices, r \in DailyReturnChoices, c \in CostChoices :
          /\ optimizePortfolio(currentPeriod_, w, r)
          /\ tickCost' = c
          /\ currentWeights_' =
                IF ShouldApply(c, getExpectedExcessReturn(r, benchmarkReturn_))
                THEN w ELSE currentWeights_
    /\ tickOldWeights' = currentWeights_
    /\ currentPeriod_' = AdvancePeriod(currentPeriod_)
    /\ loopIdx' = loopIdx + 1
    /\ tickOutcome' = "rebalanced"
    /\ UNCHANGED <<rebalanceDates_, mainPc>>
    /\ UNCHANGED <<solverVars, projVars, costVars, optVars, metricVars, searchVars>>

\* rebalance on a calendar date, the optimiser throwing: rebalance has no
\* handler and main's only handler is outside the loop (return 1)
RebalanceThrows ==
    /\ mainPc = "loop" /\ loopIdx < Len(dates_)
    /\ IsRebalancingDate(dates_[loopIdx + 1], rebalanceDates_)
    /\ optimizePortfolioThrows(currentPeriod_)
    /\ tickOldWeights' = currentWeights_
    /\ tickOutcome' = "threw"
    /\ tickCost' = Zero
    /\ mainPc' = "aborted"
    /\ UNCHANGED <<rebalanceDates_, currentWeights_, currentPeriod_, loopIdx>>
    /\ UNCHANGED <<solverVars, projVars, costVars, optVars, metricVars, searchVars>>

\* main: optimizer.optimizePortfolio(); after the loop
MainOptimizeFinal ==
    /\ mainPc = "loop" /\ loopIdx = Len(dates_)
    /\ \E w \in OptimalWeightsChoices, r \in DailyReturnChoices : optimizePortfolio(-1, w, r)
    /\ mainPc' = "done"
    /\ UNCHANGED <<rebalanceDates_, currentWeights_, currentPeriod_, loopIdx, tickOutcome,
                   tickOldWeights, tickCost>>
    /\ UNCHANGED <<solverVars, projVars, costVars, optVars, metricVars, searchVars>>

MainOptimizeFinalThrows ==
    /\ mainPc = "loop" /\ loopIdx = Len(dates_)
    /\ optimizePortfolioThrows(-1)
    /\ mainPc' = "aborted"
    /\ UNCHANGED <<rebalanceDates_, currentWeights_, currentPeriod_, loopIdx, tickOutcome,
                   tickOldWeights, tickCost>>
    /\ UNCHANGED <<solverVars, projVars, costVars, optVars, metricVars, searchVars>>

NextRebalancer ==
    \/ MainOptimizeInitial
    \/ MainOptimizeInitialThrows
    \/ initialize
    \/ RebalanceNotADate
    \/ Rebalance
    \/ RebalanceThrows
    \/ MainOptimizeFinal
    \/ MainOptimizeFinalThrows

\* the calendar ticks among the first n rows of the date column
CalendarTicks(n) ==
    Cardinality({i \in 1..n : IsRebalancingDate(dates_[i], rebalanceDates_)})

\* C17: every tick of rebalance on a calendar date advances the period
\* counter by exactly 1, whether the new weights were accepted or rejected,
\* so the k-th calendar tick calls optimizePortfolio with period k-1 (the
\* window refitted is that of period k-1); the counter never decreases.
C17_CalendarTickAdvancesPeriod ==
    [][/\ currentPeriod_' >= currentPeriod_
       /\ (loopIdx' = loopIdx + 1 /\ mainPc = "loop") =>
             IF IsRebalancingDate(dates_[loopIdx + 1], rebalanceDates_)
             THEN /\ currentPeriod_ = CalendarTicks(loopIdx)
                  /\ covariance_' = WindowOf(CalendarTicks(loopIdx))
                  /\ currentPeriod_' = CalendarTicks(loopIdx) + 1
                  /\ currentWeights_' \in {currentWeights_, teWeights_'}
             ELSE currentPeriod_' = currentPeriod_]_vars

\* C17: the second calendar tick rejected its weights, was run with period 1
\* and left the counter at 2
C17_RejectedTickAdvanced ==
    /\ tickOutcome = "rebalanced"
    /\ ~ShouldApply(tickCost, getExpectedExcessReturn(dailyReturn_, benchmarkReturn_))
    /\ currentWeights_ = tickOldWeights
    /\ currentWeights_ # teWeights_
    /\ covariance_ = WindowOf(1)
    /\ currentPeriod_ = 2

\* C24: for every period p the rebalance loop passes to optimizePortfolio(p)
\* (p = 0, then one more per calendar tick) the trailing window is valid:
\* 0 <= startIdx < endIdx <= NUM_PERIODS and endIdx - startIdx <= windowSize;
\* it is never empty or of negative length.
C24_WindowIsValid ==
    mainPc \in {"initialize", "loop", "done"} =>
        /\ 0 <= covariance_[1]
        /\ covariance_[1] < covariance_[2]
        /\ covariance_[2] <= NUM_PERIODS
        /\ covariance_[2] - covariance_[1] <= windowSize_

\* C24: the first calendar tick ran optimizePortfolio(0), whose window is
\* rows [0, 0)
C24_FirstTickFittedEmptyWindow ==
    /\ mainPc = "loop"
    /\ tickOutcome = "rebalanced"
    /\ currentPeriod_ = 1
    /\ covariance_ = WindowOf(0)
    /\ covariance_[2] - covariance_[1] = 0

\* the tick that has just ended was on a calendar date and rejected its weights
TickRejected ==
    /\ mainPc = "loop" /\ tickOutcome = "rebalanced"
    /\ ~ShouldApply(tickCost, getExpectedExcessReturn(dailyReturn_, benchmarkReturn_))

\* C25: when a calendar tick ends in rejection the proposal is discarded
\* everywhere: getCurrentWeights() equals the weights held before the tick,
\* and the engine's published state (getOptimalWeights, covariance, expected
\* excess return) is not left holding the rejected proposal.
C25_RejectionDiscardsProposal ==
    [][(loopIdx' = loopIdx + 1 /\ TickRejected') =>
          /\ currentWeights_' = currentWeights_
          /\ teWeights_' = teWeights_
          /\ covariance_' = covariance_
          /\ getExpectedExcessReturn(dailyReturn_', benchmarkReturn_')
                = getExpectedExcessReturn(dailyReturn_, benchmarkReturn_)]_vars

\* C25: after the first calendar tick was rejected the rebalancer holds the old
\* weights and getOptimalWeights() returns the rejected ones
C25_EngineHoldsRejectedWeights ==
    /\ TickRejected
    /\ currentPeriod_ = 1
    /\ currentWeights_ = tickOldWeights
    /\ teWeights_ # currentWeights_
    /\ RLt(getExpectedExcessReturn(dailyReturn_, benchmarkReturn_), tickCost)

\* C6: after a tick on a calendar date the current weights are the newly
\* optimised weights if and only if the cost estimate was strictly less than
\* the expected excess return; otherwise, equality included, they are exactly
\* the weights held before the tick.
C6_SwapIffCostBelowExcess ==
    (mainPc = "loop" /\ tickOutcome = "rebalanced") =>
        LET excess == RSub(dailyReturn_, benchmarkReturn_)
        IN IF RLt(tickCost, excess)
           THEN currentWeights_ = teWeights_
           ELSE currentWeights_ = tickOldWeights

C6_EqualCostKeepsWeights ==
    /\ mainPc = "loop" /\ tickOutcome = "rebalanced"
    /\ tickCost = Q(10, 10000) /\ RSub(dailyReturn_, benchmarkReturn_) = Q(10, 10000)
    /\ currentWeights_ = tickOldWeights /\ currentWeights_ # teWeights_

\* C7: a tick with a date that is not in the rebalance calendar changes neither
\* the rebalancer's current weights and period counter nor the engine's
\* weights, covariances and returns (the optimiser is not invoked).
C7_NonCalendarTickIsNoOp ==
    [][(mainPc = "loop" /\ loopIdx' = loopIdx + 1
            /\ \A k \in 1..Len(rebalanceDates_) : rebalanceDates_[k] # dates_[loopIdx + 1])
        => UNCHANGED <<currentWeights_, currentPeriod_, rebalanceDates_, teWeights_,
                       covariance_, dailyReturn_, benchmarkReturn_, dates_>>]_vars

C7_TickSkipped ==
    /\ mainPc = "loop" /\ tickOutcome = "skipped" /\ loopIdx >= 2
    /\ \A k \in 1..Len(rebalanceDates_) : rebalanceDates_[k] # dates_[loopIdx]
    /\ currentWeights_ = tickOldWeights

\* the calendar month of an M/D/YYYY string: its month and year fields
MonthAndYear(date) ==
    LET slashes == {i \in 1..Len(date) : date[i] = "/"}
        firstSlash == CHOOSE i \in slashes : \A j \in slashes : i <= j
        lastSlash == CHOOSE i \in slashes : \A j \in slashes : j <= i
    IN <<SubSeq(date, 1, firstSlash - 1), SubSeq(date, lastSlash + 1, Len(date))>>

FirstRowOfEachMonth(allDates) ==
    SelectSeq([k \in 1..Len(allDates) |->
                  <<allDates[k],
                    \A j \in 1..(k - 1) : MonthAndYear(allDates[j]) # MonthAndYear(allDates[k])>>],
              LAMBDA row : row[2])

\* C8: the calendar built from a column of well-formed M/D/YYYY strings holds
\* exactly the first row of each calendar month of the column, in input order.
C8_CalendarIsFirstRowOfEachMonth ==
    mainPc \in {"loop", "done"} =>
        rebalanceDates_ = [k \in 1..Len(FirstRowOfEachMonth(dates_)) |->
                              FirstRowOfEachMonth(dates_)[k][1]]

C8_CalendarBuilt ==
    mainPc = "loop" /\ Len(dates_) = 3 /\ Len(rebalanceDates_) = 3
        /\ dates_[2] = DateString(<<7, 2, 2018>>) /\ dates_[3] = DateString(<<7, 3, 2018>>)

\* C9: when the optimisation of one calendar tick fails, the failure is caught
\* for that period, the current weights are retained and the loop goes on: the
\* run is not aborted.
C9_TickFailureIsCaught ==
    tickOutcome = "threw" =>
        mainPc \in {"loop", "done"} /\ currentWeights_ = tickOldWeights

C9_TickThrewAndRunAborted ==
    tickOutcome = "threw" /\ mainPc = "aborted" /\ loopIdx < Len(dates_) - 1

-----------------------------------------------------------------------------
(* TransactionCostModel *)

\* std::exp, exact at 0 and by its expansion to second order elsewhere
Exp(x) ==
    IF x = Zero THEN One
    ELSE RAdd(RAdd(One, x), RDiv(RMul(x, x), Q(2, 1)))

\* std::pow(x, 1.5) for x >= 0
PowThreeHalves(x) == RMul(x, RSqrt(x))

estimateMarketImpact(tradeSize, avgVolume, costs) ==
    IF RLe(avgVolume, Zero) THEN Zero
    ELSE RMul(costs.marketImpact, PowThreeHalves(RDiv(tradeSize, avgVolume)))

estimateSlippage(tradeSize, avgVolume, costs) ==
    IF RLe(avgVolume, Zero) THEN Zero
    ELSE RMul(costs.slippageModel, RDiv(tradeSize, avgVolume))

\* the loop of calculateMarketImpactDecay from day on
RECURSIVE calculateMarketImpactDecayFrom(_, _, _, _, _, _, _)
calculateMarketImpactDecayFrom(day, impact, dailyTradeSize, avgVolume, days, rate, costs) ==
    IF ~(day < days) THEN impact
    ELSE LET decayFactor == Exp(RMul(RNeg(rate), Q(day, 1)))
         IN calculateMarketImpactDecayFrom(day + 1,
                RAdd(impact, RMul(estimateMarketImpact(dailyTradeSize, avgVolume, costs),
                                  decayFactor)),
                dailyTradeSize, avgVolume, days, rate, costs)

calculateMarketImpactDecay(tradeSize, avgVolume, daysToExecute, decayRate, costs) ==
    calculateMarketImpactDecayFrom(0, Zero, RDiv(tradeSize, Q(daysToExecute, 1)), avgVolume,
                                   daysToExecute, decayRate, costs)

\* double tradeSize = std::abs(targetWeights[i][0] - currentWeights[i][0]) * portfolioValue;
TradeSize(cur, tgt, value, i) == RMul(RAbs(RSub(tgt[i], cur[i])), value)

TradeIsChargedOrZero(tradeSize) == RGe(tradeSize, Zero)

\* if (tradeSize > 0)
TradeIsCharged(tradeSize) == RGt(tradeSize, Zero)

\* the loop of calculateTotalCost from asset i on
RECURSIVE calculateTotalCostFrom(_, _, _, _, _, _, _, _, _)
calculateTotalCostFrom(i, total, cur, tgt, value, costs, volumes, daysToExecute, decayRate) ==
    IF i > Len(cur) THEN total
    ELSE LET tradeSize == TradeSize(cur, tgt, value, i)
             charged ==
                 RAdd(RAdd(RAdd(RAdd(total, costs.fixedCommission),
                                RMul(tradeSize, costs.variableCommission)),
                           calculateMarketImpactDecay(tradeSize, volumes[i], daysToExecute,
                                                      decayRate, costs)),
                      estimateSlippage(tradeSize, volumes[i], costs))
         IN calculateTotalCostFrom(i + 1, IF TradeIsCharged(tradeSize) THEN charged ELSE total,
                                   cur, tgt, value, costs, volumes, daysToExecute, decayRate)

calculateTotalCost(cur, tgt, value, costs, volumes, daysToExecute, decayRate) ==
    calculateTotalCostFrom(1, Zero, cur, tgt, value, costs, volumes, daysToExecute, decayRate)

\* Costs{} : every parameter 0.0
DefaultCosts ==
    [fixedCommission |-> Zero, variableCommission |-> Zero,
     slippageModel |-> Zero, marketImpact |-> Zero]

RetailCosts ==
    [fixedCommission |-> One, variableCommission |-> Q(1, 10000),
     slippageModel |-> Q(1, 2), marketImpact |-> One]

\* Bound of the execution horizon: daysToExecute_ in 0..MaxDaysToExecute
MaxDaysToExecute == 2

\* Bound of the book weights: each is k/10 with 0 <= k <= MaxWeightTenths
MaxWeightTenths == 2

BookWeightChoices == {<<Q(a, 10), Q(b, 10)>> : a, b \in 0..MaxWeightTenths}

\* avgVolumes_: set for both assets, zero for one, or never set for the second
VolumeChoices ==
    { <<Q(1000000, 1), Q(250000, 1)>>, <<Q(1000000, 1), Zero>>, <<Q(1000000, 1)>> }

PortfolioValueChoices == {Zero, Q(100000, 1)}

\* coefficients below zero
RebateCosts ==
    [fixedCommission |-> Zero, variableCommission |-> Zero,
     slippageModel |-> Q(-1, 2), marketImpact |-> Q(-1, 1)]

\* arguments of a direct call of an estimator
QuoteTradeSizeChoices == {Zero, Q(10000, 1), Q(40000, 1), Q(1000000, 1)}

QuoteVolumeChoices == {Q(-1000000, 1), Zero, Q(250000, 1), Q(1000000, 1)}

\* what reading avgVolumes_[i] past its end may yield
StrayVolumeChoices == {Zero, Q(40000, 1), NaN}

\* A cost model is set up and calculateTotalCost is called,
\* or one of its estimators is called directly
InitCost ==
    /\ costs_ \in {DefaultCosts, RetailCosts, RebateCosts}
    /\ avgVolumes_ \in VolumeChoices
    /\ daysToExecute_ \in 0..MaxDaysToExecute
    /\ decayRate_ = Q(1, 10)
    /\ totalCost = Zero
    /\ quoteFn = "none"
    /\ quoteValue = Zero
    /\ \/ /\ costPc = "call"
          /\ costCurrentWeights \in BookWeightChoices
          /\ costTargetWeights \in BookWeightChoices
          /\ portfolioValue \in PortfolioValueChoices
          /\ quoteTradeSize = Zero
          /\ quoteAvgVolume = Zero
       \/ /\ costPc = "quote"
          /\ costCurrentWeights = NoWeights
          /\ costTargetWeights = NoWeights
          /\ portfolioValue = Zero
          /\ quoteTradeSize \in QuoteTradeSizeChoices
          /\ quoteAvgVolume \in QuoteVolumeChoices

\* every asset has its entry of avgVolumes_
CalculateTotalCost ==
    /\ costPc = "call"
    /\ Len(avgVolumes_) >= Len(costCurrentWeights)
    /\ totalCost' = calculateTotalCost(costCurrentWeights, costTargetWeights, portfolioValue,
                                       costs_, avgVolumes_, daysToExecute_, decayRate_)
    /\ costPc' = "returned"
    /\ UNCHANGED <<costs_, avgVolumes_, daysToExecute_, decayRate_, costCurrentWeights,
                   costTargetWeights, portfolioValue>>
    /\ UNCHANGED <<quoteFn, quoteTradeSize, quoteAvgVolume, quoteValue>>
    /\ UNCHANGED <<solverVars, projVars, engineVars, rebVars, optVars, metricVars, searchVars>>

\* avgVolumes_ is shorter than the book: avgVolumes_[i] is read past the end
\* of the vector, which yields some value
CalculateTotalCostPastVolumes ==
    /\ costPc = "call"
    /\ Len(avgVolumes_) < Len(costCurrentWeights)
    /\ \E stray \in StrayVolumeChoices :
          totalCost' = calculateTotalCost(costCurrentWeights, costTargetWeights,
                          portfolioValue, costs_,
                          Tup([i \in 1..Len(costCurrentWeights) |->
                                  IF i <= Len(avgVolumes_) THEN avgVolumes_[i] ELSE stray]),
                          daysToExecute_, decayRate_)
    /\ costPc' = "returned"
    /\ UNCHANGED <<costs_, avgVolumes_, daysToExecute_, decayRate_, costCurrentWeights,
                   costTargetWeights, portfolioValue>>
    /\ UNCHANGED <<quoteFn, quoteTradeSize, quoteAvgVolume, quoteValue>>
    /\ UNCHANGED <<solverVars, projVars, engineVars, rebVars, optVars, metricVars, searchVars>>

\* ... or faults
CalculateTotalCostFaults ==
    /\ costPc = "call"
    /\ Len(avgVolumes_) < Len(costCurrentWeights)
    /\ costPc' = "crashed"
    /\ UNCHANGED <<costs_, avgVolumes_, daysToExecute_, decayRate_, costCurrentWeights,
                   costTargetWeights, portfolioValue, totalCost>>
    /\ UNCHANGED <<quoteFn, quoteTradeSize, quoteAvgVolume, quoteValue>>
    /\ UNCHANGED <<solverVars, projVars, engineVars, rebVars, optVars, metricVars, searchVars>>

\* what a direct call of an estimator leaves alone
QuoteFrame ==
    /\ costPc' = "quoted"
    /\ UNCHANGED <<costs_, avgVolumes_, daysToExecute_, decayRate_, costCurrentWeights,
                   costTargetWeights, portfolioValue, totalCost, quoteTradeSize,
                   quoteAvgVolume>>
    /\ UNCHANGED <<solverVars, projVars, engineVars, rebVars, optVars, metricVars, searchVars>>

\* estimateMarketImpact(tradeSize, avgVolume) returns
EstimateMarketImpact ==
    /\ costPc = "quote"
    /\ quoteFn' = "estimateMarketImpact"
    /\ quoteValue' = estimateMarketImpact(quoteTradeSize, quoteAvgVolume, costs_)
    /\ QuoteFrame

\* estimateSlippage(tradeSize, avgVolume) returns
EstimateSlippage ==
    /\ costPc = "quote"
    /\ quoteFn' = "estimateSlippage"
    /\ quoteValue' = estimateSlippage(quoteTradeSize, quoteAvgVolume, costs_)
    /\ QuoteFrame

\* calculateMarketImpactDecay(tradeSize, avgVolume, daysToExecute_) returns
CalculateMarketImpactDecay ==
    /\ costPc = "quote"
    /\ quoteFn' = "calculateMarketImpactDecay"
    /\ quoteValue' = calculateMarketImpactDecay(quoteTradeSize, quoteAvgVolume,
                                                daysToExecute_, decayRate_, costs_)
    /\ QuoteFrame

NextCost ==
    \/ CalculateTotalCost
    \/ CalculateTotalCostPastVolumes
    \/ CalculateTotalCostFaults
    \/ EstimateMarketImpact
    \/ EstimateSlippage
    \/ CalculateMarketImpactDecay

\* the charge of one leg: fixed commission, variable commission, market impact
\* over the execution horizon, slippage
LegCharge(i) ==
    LET s == TradeSize(costCurrentWeights, costTargetWeights, portfolioValue, i)
    IN RAdd(RAdd(RAdd(costs_.fixedCommission, RMul(s, costs_.variableCommission)),
                 calculateMarketImpactDecay(s, avgVolumes_[i], daysToExecute_, decayRate_,
                                            costs_)),
            estimateSlippage(s, avgVolumes_[i], costs_))

TradedLegs ==
    {i \in 1..Len(costCurrentWeights) :
        RGt(TradeSize(costCurrentWeights, costTargetWeights, portfolioValue, i), Zero)}

\* C10: calculateTotalCost returns the sum, over exactly the assets whose trade
\* notional is positive, of one fixed commission, notional times the variable
\* commission, the market-impact term and the slippage term; a leg of notional
\* 0 adds nothing, so identical current and target weights cost 0.
C10_TotalCostSumsTradedLegs ==
    (costPc = "returned" /\ Len(avgVolumes_) >= Len(costCurrentWeights)) =>
        /\ totalCost = RSum(Tup([i \in 1..Len(costCurrentWeights) |->
                                    IF i \in TradedLegs THEN LegCharge(i) ELSE Zero]))
        /\ costCurrentWeights = costTargetWeights => totalCost = Zero

C10_OneLegTraded ==
    /\ costPc = "returned" /\ Len(avgVolumes_) >= Len(costCurrentWeights)
    /\ costs_ = RetailCosts /\ daysToExecute_ = 2
    /\ TradedLegs = {2} /\ RGt(avgVolumes_[2], Zero)
    /\ RGt(totalCost, costs_.fixedCommission)

\* a coefficient of the cost parameters is negative
NegativeCoefficient(costs) ==
    \/ RLt(costs.fixedCommission, Zero) \/ RLt(costs.variableCommission, Zero)
    \/ RLt(costs.slippageModel, Zero) \/ RLt(costs.marketImpact, Zero)

\* the input of the direct call is invalid: v <= 0, D <= 0 or a negative coefficient
InvalidCostInput ==
    \/ RLe(quoteAvgVolume, Zero)
    \/ quoteFn = "calculateMarketImpactDecay" /\ daysToExecute_ <= 0
    \/ NegativeCoefficient(costs_)

\* C11: the market-impact and slippage calculations fail with an invalid-input
\* error, and return no number, whenever the average daily volume is <= 0,
\* days-to-execute is <= 0 or a cost coefficient is negative.
C11_InvalidInputFails ==
    (quoteFn # "none" /\ InvalidCostInput) => costPc # "quoted"

C11_ZeroVolumeQuotedZero ==
    /\ costPc = "quoted" /\ quoteFn = "estimateSlippage"
    /\ quoteAvgVolume = Zero /\ RGt(quoteTradeSize, Zero)
    /\ quoteValue = Zero

\* C21: for trade notional s > 0 and average daily volume v > 0,
\* estimateSlippage returns slippageCoeff * sqrt(s/v) (s/v = 4 gives
\* 2 * slippageCoeff).
C21_SlippageIsSquareRoot ==
    (/\ costPc = "quoted" /\ quoteFn = "estimateSlippage"
     /\ RGt(quoteTradeSize, Zero) /\ RGt(quoteAvgVolume, Zero)) =>
        quoteValue = RMul(costs_.slippageModel, RSqrt(RDiv(quoteTradeSize, quoteAvgVolume)))

\* C21: at s/v = 4 the quoted slippage is 4 * slippageCoeff, not 2 * slippageCoeff
C21_RatioFourQuotedFourfold ==
    /\ costPc = "quoted" /\ quoteFn = "estimateSlippage"
    /\ RDiv(quoteTradeSize, quoteAvgVolume) = Q(4, 1)
    /\ RGt(costs_.slippageModel, Zero)
    /\ quoteValue = RMul(costs_.slippageModel, Q(4, 1))
    /\ quoteValue # RMul(costs_.slippageModel, Q(2, 1))

-----------------------------------------------------------------------------
(* EnhancedPortfolioOptimizer::optimizePortfolio, step by step, in its two   *)
(* variants: weight.cpp (frontier of NUM_POINTS points) and part_000          *)
(* (frontier of numPoints points).  The solver is given the column means of   *)
(* the window as mu.                                                          *)

\* weight.cpp: const int NUM_POINTS = 50;
NUM_POINTS == 50

\* part_000: int numPoints = 60;
numPoints == 60

\* part_000: Real startReturn = -0.001; Real returnStep = 0.00005;
startReturn == Q(-1, 1000)

returnStep == Q(5, 100000)

\* part_000: Real targetReturn = 0.0013;
targetDailyReturn == Q(13, 10000)

FrontierSize(source) == IF source = "weight.cpp" THEN NUM_POINTS ELSE numPoints

\* *min_element(mu.begin(), mu.end())
RECURSIVE MinElement(_)
MinElement(v) ==
    IF Len(v) = 1 THEN v[1]
    ELSE LET m == MinElement(SubSeq(v, 1, Len(v) - 1))
         IN IF RLt(v[Len(v)], m) THEN v[Len(v)] ELSE m

\* *max_element(mu.begin(), mu.end())
RECURSIVE MaxElement(_)
MaxElement(v) ==
    IF Len(v) = 1 THEN v[1]
    ELSE LET m == MaxElement(SubSeq(v, 1, Len(v) - 1))
         IN IF RLt(m, v[Len(v)]) THEN v[Len(v)] ELSE m

\* the target return of point i (from 0) of the sweep
\*   weight.cpp: minRet + i * step, step = (maxRet - minRet) / (NUM_POINTS - 1)
\*   part_000:   startReturn + i * returnStep
SweepTarget(source, means, i) ==
    IF source = "weight.cpp"
    THEN LET minRet == MinElement(means)
             maxRet == MaxElement(means)
             step == RDiv(RSub(maxRet, minRet), Q(NUM_POINTS - 1, 1))
         IN RAdd(minRet, RMul(Q(i, 1), step))
    ELSE RAdd(startReturn, RMul(Q(i, 1), returnStep))

\* the tuple the sweep pushes for the target tau
\*   weight.cpp: make_tuple(targetReturn, sqrt(optSigmaSq), optMu)
\*   part_000:   make_tuple(targetReturn, trackingError, portfolioVol)
FrontierPoint(source, means, cov, excessCov, tau) ==
    LET u == UnitVector(Len(means))
    IN IF source = "weight.cpp"
       THEN <<tau, RSqrt(RInv(FrontierC(cov, u))),
              RDiv(FrontierA(means, cov), FrontierC(cov, u))>>
       ELSE <<tau,
              RSqrt(QuadForm(MarkowitzWeights(means, excessCov, u, tau), excessCov)),
              RSqrt(QuadForm(MarkowitzWeights(means, cov, u, tau), cov))>>

\* a solve of the sweep throws when inverse() throws
SweepSolveThrows(source, cov, excessCov) ==
    IF source = "weight.cpp" THEN IsSingular(cov)
    ELSE IsSingular(excessCov) \/ IsSingular(cov)

\* the order of the steps in the body of optimizePortfolio
FirstStep(source, period) ==
    IF source = "weight.cpp" \/ period >= 0 THEN "slice" ELSE "solve"

AfterRefit(source) == IF source = "weight.cpp" THEN "sweep" ELSE "solve"

AfterSweep(source) == IF source = "weight.cpp" THEN "solve" ELSE "done"

AfterSolve(source) == IF source = "weight.cpp" THEN "projector" ELSE "metrics"

AfterMetrics(source) == IF source = "weight.cpp" THEN "done" ELSE "sweep"

\* Bound of the number of optimizePortfolio calls on one engine
MaxOptimizeCalls == 2

\* column means of the window
OptMeansChoices ==
    { <<Q(-1, 1000), Q(2, 1000)>>, <<Zero, Q(1, 1000)>>,
      <<Q(-1, 1000), Q(1, 1000)>>, <<Q(1, 1000), Q(1, 1000)>> }

\* <<covariance, excess covariance>> of the window
OptCovarianceChoices ==
    { << <<<<One, Zero>>, <<Zero, One>>>>, <<<<One, Zero>>, <<Zero, Q(4, 1)>>>> >>,
      << <<<<Q(2, 1), One>>, <<One, Q(2, 1)>>>>, <<<<One, Zero>>, <<Zero, One>>>> >>,
      << <<<<One, One>>, <<One, One>>>>, <<<<One, Zero>>, <<Zero, One>>>> >>,
      << <<<<One, Zero>>, <<Zero, One>>>>, <<<<Zero, Zero>>, <<Zero, Zero>>>> >> }

\* what enforceConstraints returns for w: w itself or a shrunk vector
ProjectedChoices(w) == {w, VecScale(w, Q(1, 2))}

\* The engine is constructed on its data; no optimisation has run
InitOptimizer ==
    /\ engineSource \in {"weight.cpp", "part_000"}
    /\ windowMeans \in OptMeansChoices
    /\ \E pair \in OptCovarianceChoices :
          /\ windowCovariance = pair[1]
          /\ windowExcessCovariance = pair[2]
    /\ covarianceMat_ = <<>>
    /\ excessCovariance_ = <<>>
    /\ efficientFrontierPoints_ = <<>>
    /\ sweepIdx = 0
    /\ sweepFailed = FALSE
    /\ mptWeights_ = NoWeights
    /\ dailyVol_ = Zero
    /\ trackingError_ = Zero
    /\ optPc = "idle"
    /\ optTrace = <<>>
    /\ optPeriod = -1
    /\ optCalls = 0
    /\ dates_ = <<>>
    /\ teWeights_ = NoWeights
    /\ covariance_ = <<0, 0>>
    /\ dailyReturn_ = Zero
    /\ benchmarkReturn_ = Q(5, 10000)

\* what no step of optimizePortfolio assigns
OptimizerFrame ==
    /\ UNCHANGED <<engineSource, windowMeans, windowCovariance, windowExcessCovariance,
                   optCalls, optPeriod>>
    /\ UNCHANGED <<dates_, covariance_, benchmarkReturn_>>
    /\ UNCHANGED <<solverVars, projVars, rebVars, costVars, metricVars, searchVars>>

\* optimizePortfolio is called: weight.cpp's takes no argument, part_000's
\* takes the period (main passes 0 first; -1 refits nothing)
OptimizePortfolioCall ==
    /\ optPc \in {"idle", "done"}
    /\ optCalls < MaxOptimizeCalls
    /\ optCalls' = optCalls + 1
    /\ optPeriod' \in IF engineSource = "weight.cpp" THEN {-1}
                      ELSE IF optCalls = 0 THEN {0} ELSE {-1, optCalls}
    /\ optPc' = FirstStep(engineSource, optPeriod')
    /\ optTrace' = <<>>
    /\ sweepFailed' = FALSE
    /\ UNCHANGED <<engineSource, windowMeans, windowCovariance, windowExcessCovariance>>
    /\ UNCHANGED <<covarianceMat_, excessCovariance_, efficientFrontierPoints_, sweepIdx,
                   mptWeights_, dailyVol_, trackingError_>>
    /\ UNCHANGED <<engineVars, solverVars, projVars, rebVars, costVars, metricVars, searchVars>>

\* returns_.block(...), excessReturns_.block(...)
SliceWindow ==
    /\ optPc = "slice"
    /\ optPc' = "refit"
    /\ optTrace' = Append(optTrace, "slice")
    /\ UNCHANGED <<covarianceMat_, excessCovariance_, efficientFrontierPoints_, sweepIdx,
                   sweepFailed, mptWeights_, dailyVol_, trackingError_>>
    /\ UNCHANGED <<teWeights_, dailyReturn_>>
    /\ OptimizerFrame

\* updateCovariances(windowReturns, windowExcessReturns)
UpdateCovariances ==
    /\ optPc = "refit"
    /\ covarianceMat_' = windowCovariance
    /\ excessCovariance_' = windowExcessCovariance
    /\ optPc' = AfterRefit(engineSource)
    /\ optTrace' = Append(optTrace, "refit")
    /\ UNCHANGED <<efficientFrontierPoints_, sweepIdx, sweepFailed, mptWeights_, dailyVol_,
                   trackingError_>>
    /\ UNCHANGED <<teWeights_, dailyReturn_>>
    /\ OptimizerFrame

\* calculateEfficientFrontier / generateEfficientFrontier up to its loop:
\* efficientFrontierPoints_.clear()
SweepBegin ==
    /\ optPc = "sweep"
    /\ efficientFrontierPoints_' = <<>>
    /\ sweepIdx' = 0
    /\ optPc' = "sweeping"
    /\ UNCHANGED <<optTrace, covarianceMat_, excessCovariance_, sweepFailed, mptWeights_,
                   dailyVol_, trackingError_>>
    /\ UNCHANGED <<teWeights_, dailyReturn_>>
    /\ OptimizerFrame

\* one iteration of the sweep's loop: solve for the target, push the point
SweepPoint ==
    /\ optPc = "sweeping"
    /\ sweepIdx < FrontierSize(engineSource)
    /\ ~SweepSolveThrows(engineSource, covarianceMat_, excessCovariance_)
    /\ efficientFrontierPoints_' =
          Append(efficientFrontierPoints_,
                 FrontierPoint(engineSource, windowMeans, covarianceMat_, excessCovariance_,
                               SweepTarget(engineSource, windowMeans, sweepIdx)))
    /\ sweepIdx' = sweepIdx + 1
    /\ UNCHANGED <<optPc, optTrace, covarianceMat_, excessCovariance_, sweepFailed,
                   mptWeights_, dailyVol_, trackingError_>>
    /\ UNCHANGED <<teWeights_, dailyReturn_>>
    /\ OptimizerFrame

\* one iteration whose solve throws: weight.cpp rethrows from
\* calculateEfficientFrontier and from optimizePortfolio, part_000 has no
\* handler; the loop is left and the call is over
SweepPointThrows ==
    /\ optPc = "sweeping"
    /\ sweepIdx < FrontierSize(engineSource)
    /\ SweepSolveThrows(engineSource, covarianceMat_, excessCovariance_)
    /\ sweepFailed' = TRUE
    /\ optPc' = "threw"
    /\ UNCHANGED <<optTrace, covarianceMat_, excessCovariance_, efficientFrontierPoints_,
                   sweepIdx, mptWeights_, dailyVol_, trackingError_>>
    /\ UNCHANGED <<teWeights_, dailyReturn_>>
    /\ OptimizerFrame

\* the loop of the sweep ends
SweepEnd ==
    /\ optPc = "sweeping"
    /\ sweepIdx = FrontierSize(engineSource)
    /\ optPc' = AfterSweep(engineSource)
    /\ optTrace' = Append(optTrace, "sweep")
    /\ UNCHANGED <<covarianceMat_, excessCovariance_, efficientFrontierPoints_, sweepIdx,
                   sweepFailed, mptWeights_, dailyVol_, trackingError_>>
    /\ UNCHANGED <<teWeights_, dailyReturn_>>
    /\ OptimizerFrame

\* the weight solve
\*   weight.cpp: optimizeTrackingError(): teWeights_ for the target 0.0 on the
\*               excess covariance (the cost-aware adjustment that follows is
\*               not part of the sources and leaves the vector as solved)
\*   part_000:   teWeights_ for targetReturn, mptWeights_ for
\*               targetReturn + benchmarkReturn_
SolveWeights ==
    /\ optPc = "solve"
    /\ ~IsSingular(excessCovariance_)
    /\ engineSource = "part_000" => ~IsSingular(covarianceMat_)
    /\ LET u == UnitVector(Len(windowMeans))
       IN IF engineSource = "weight.cpp"
          THEN /\ teWeights_' = MarkowitzWeights(windowMeans, excessCovariance_, u, Zero)
               /\ UNCHANGED mptWeights_
          ELSE /\ teWeights_' = MarkowitzWeights(windowMeans, excessCovariance_, u,
                                                 targetDailyReturn)
               /\ mptWeights_' = MarkowitzWeights(windowMeans, covarianceMat_, u,
                                                  RAdd(targetDailyReturn, benchmarkReturn_))
    /\ optPc' = AfterSolve(engineSource)
    /\ optTrace' = Append(optTrace, "solve")
    /\ UNCHANGED <<covarianceMat_, excessCovariance_, efficientFrontierPoints_, sweepIdx,
                   sweepFailed, dailyVol_, trackingError_>>
    /\ UNCHANGED dailyReturn_
    /\ OptimizerFrame

\* the weight solve throws (inverse() of a singular matrix)
SolveWeightsThrows ==
    /\ optPc = "solve"
    /\ \/ IsSingular(excessCovariance_)
       \/ engineSource = "part_000" /\ IsSingular(covarianceMat_)
    /\ optPc' = "threw"
    /\ UNCHANGED <<optTrace, covarianceMat_, excessCovariance_, efficientFrontierPoints_,
                   sweepIdx, sweepFailed, mptWeights_, dailyVol_, trackingError_>>
    /\ UNCHANGED <<teWeights_, dailyReturn_>>
    /\ OptimizerFrame

\* weight.cpp: teWeights_ = riskConstraints_->enforceConstraints(teWeights_, ...)
ProjectWeights ==
    /\ optPc = "projector"
    /\ teWeights_' \in ProjectedChoices(teWeights_)
    /\ optPc' = "metrics"
    /\ optTrace' = Append(optTrace, "projector")
    /\ UNCHANGED <<covarianceMat_, excessCovariance_, efficientFrontierPoints_, sweepIdx,
                   sweepFailed, mptWeights_, dailyVol_, trackingError_>>
    /\ UNCHANGED dailyReturn_
    /\ OptimizerFrame

\* enforceConstraints throws (the limits cannot be met in maxIterations passes)
ProjectWeightsThrows ==
    /\ optPc = "projector"
    /\ optPc' = "threw"
    /\ UNCHANGED <<optTrace, covarianceMat_, excessCovariance_, efficientFrontierPoints_,
                   sweepIdx, sweepFailed, mptWeights_, dailyVol_, trackingError_>>
    /\ UNCHANGED <<teWeights_, dailyReturn_>>
    /\ OptimizerFrame

\* calculatePerformanceMetrics()
CalculatePerformanceMetrics ==
    /\ optPc = "metrics"
    /\ dailyReturn_' \in DailyReturnChoices
    /\ dailyVol_' = RSqrt(QuadForm(teWeights_, covarianceMat_))
    /\ trackingError_' = RSqrt(QuadForm(teWeights_, excessCovariance_))
    /\ optPc' = AfterMetrics(engineSource)
    /\ optTrace' = Append(optTrace, "metrics")
    /\ UNCHANGED <<covarianceMat_, excessCovariance_, efficientFrontierPoints_, sweepIdx,
                   sweepFailed, mptWeights_>>
    /\ UNCHANGED teWeights_
    /\ OptimizerFrame

NextOptimizer ==
    \/ OptimizePortfolioCall
    \/ SliceWindow
    \/ UpdateCovariances
    \/ SweepBegin
    \/ SweepPoint
    \/ SweepPointThrows
    \/ SweepEnd
    \/ SolveWeights
    \/ SolveWeightsThrows
    \/ ProjectWeights
    \/ ProjectWeightsThrows
    \/ CalculatePerformanceMetrics

\* C13: a solve of the frontier sweep that fails only omits its point: the
\* sweep goes on with the remaining targets and the enclosing optimizePortfolio
\* call still completes and publishes weights.
C13_SweepFailureIsNotFatal ==
    sweepFailed => optPc # "threw"

C13_SweepThrewCallAborted ==
    /\ sweepFailed /\ optPc = "threw"
    /\ engineSource = "weight.cpp" /\ optCalls = 1
    /\ sweepIdx = 0 /\ efficientFrontierPoints_ = <<>>
    /\ teWeights_ = NoWeights

\* the order of the steps that the engine is said to follow
ClaimedStepOrder == <<"slice", "refit", "solve", "sweep", "projector", "metrics">>

\* C18: within one optimizePortfolio call the steps run strictly in the order
\* window slice, covariance refit, weight solve, efficient-frontier sweep,
\* constraint projection, metric calculation, and none is skipped.
C18_StepsInClaimedOrder ==
    /\ optPc = "done" => optTrace = ClaimedStepOrder
    /\ \E n \in 0..Len(ClaimedStepOrder) : optTrace = SubSeq(ClaimedStepOrder, 1, n)

C18_SweepRanBeforeSolve ==
    /\ optPc = "done" /\ engineSource = "weight.cpp"
    /\ optTrace = <<"slice", "refit", "sweep", "solve", "projector", "metrics">>

\* the weight vector the solver yields for point i (from 1) of the stored frontier
WeightsOfPoint(i) ==
    MarkowitzWeights(windowMeans, covarianceMat_, UnitVector(Len(windowMeans)),
                     efficientFrontierPoints_[i][1])

\* C20: after any number of optimizePortfolio calls the stored frontier holds
\* exactly K points (K = 50 or 60), one per equally spaced target return in
\* ascending order, and the risk entries of each point are computed from the
\* weight vector solved for that point's own target, so that they vary with the
\* target.
C20_FrontierOfKPointsWithOwnRisk ==
    optPc = "done" =>
        LET K == FrontierSize(engineSource)
            pts == efficientFrontierPoints_
        IN /\ Len(pts) = K
           /\ \A i \in 1..(K - 1) :
                 /\ RLt(pts[i][1], pts[i + 1][1])
                 /\ REq(RSub(pts[i + 1][1], pts[i][1]), RSub(pts[2][1], pts[1][1]))
           /\ \A i \in 1..K :
                 \E k \in {2, 3} :
                    pts[i][k] = RSqrt(QuadForm(WeightsOfPoint(i), covarianceMat_))
           /\ \E i, j \in 1..K : pts[i][2] # pts[j][2]

C20_SameRiskAtEveryPoint ==
    /\ optPc = "done" /\ engineSource = "weight.cpp"
    /\ Len(efficientFrontierPoints_) = NUM_POINTS
    /\ RLt(efficientFrontierPoints_[1][1], efficientFrontierPoints_[NUM_POINTS][1])
    /\ \A i \in 1..NUM_POINTS :
          /\ efficientFrontierPoints_[i][2] = efficientFrontierPoints_[1][2]
          /\ efficientFrontierPoints_[i][3] = efficientFrontierPoints_[1][3]
    /\ \E i \in 1..NUM_POINTS :
          /\ IsFinite(RSqrt(QuadForm(WeightsOfPoint(i), covarianceMat_)))
          /\ efficientFrontierPoints_[i][2] # RSqrt(QuadForm(WeightsOfPoint(i), covarianceMat_))

-----------------------------------------------------------------------------
(* RiskMetrics: the scalar risk measures                                    *)
(*                                                                         *)
(* One call of one function: metricFn names it, metricPc is its position   *)
(* ("call", then "returned", "threw", or "fault" for a read outside the    *)
(* series), metricValue the double it returned.  The series functions take *)
(* (weights, returns); the static calculateMaxDrawdown takes the portfolio *)
(* series itself as a T x 1 matrix (metricWeights is then empty).          *)

\* longest generated return series
MaxSeriesLen == 3

ReturnValues == {Q(-1, 5), Q(-1, 10), Q(1, 20), Q(1, 10)}

RECURSIVE SeriesOfLen(_)
SeriesOfLen(n) ==
    IF n = 0 THEN {<<>>}
    ELSE {Append(s, <<r>>) : s \in SeriesOfLen(n - 1), r \in ReturnValues}

\* the daily returns +0.10, -0.20, +0.05, -0.10 of one asset
DrawdownExample == <<Q(1, 10), Q(-1, 5), Q(1, 20), Q(-1, 10)>>

ColumnMatrix(p) == Tup([i \in 1..Len(p) |-> <<p[i]>>])

ReturnsChoices ==
    UNION {SeriesOfLen(n) : n \in 1..MaxSeriesLen} \cup {ColumnMatrix(DrawdownExample)}

\* a fully invested book and a ten times levered one
MetricWeightChoices == {<<One>>, <<Q(10, 1)>>}

ConfidenceChoices == {Zero, Q(1, 2), Q(95, 100), One}

RiskFreeChoices == {Zero, Q(1, 20)}

NumeratorChoices == {Q(-1, 100), Q(1, 100)}

DenominatorChoices ==
    {Q(-1, 2), Zero, Q(1, 2000000), Q(1, 1000000), Q(1, 5), NaN}

\* what a read one element past the end of the sorted vector can yield
StrayReturnChoices == {Zero, Q(-7, 1), NaN}

calculatePortfolioReturns(w, R) == Tup([i \in 1..Len(R) |-> Dot(R[i], w)])

Mean(p) == RDiv(RSum(p), Q(Len(p), 1))

RECURSIVE InsertSorted(_, _)
InsertSorted(s, x) ==
    IF Len(s) = 0 THEN <<x>>
    ELSE IF RLt(x, s[1]) THEN <<x>> \o s
    ELSE <<s[1]>> \o InsertSorted(Tail(s), x)

RECURSIVE SortAscending(_)
SortAscending(s) ==
    IF Len(s) = 0 THEN <<>>
    ELSE InsertSorted(SortAscending(SubSeq(s, 1, Len(s) - 1)), s[Len(s)])

\* static_cast<size_t>((1 - confidenceLevel) * size), for confidenceLevel <= 1
TailIndex(alpha, size) ==
    LET x == RMul(RSub(One, alpha), Q(size, 1)) IN x[1] \div x[2]

\* the benchmark's sum of squared deviations from its mean
BenchmarkSquares(B) ==
    LET b == Tup([i \in 1..Len(B) |-> B[i][1]])
    IN RSum(Tup([i \in 1..Len(b) |-> RMul(RSub(b[i], Mean(b)), RSub(b[i], Mean(b)))]))

calculateBeta(w, R, B) ==
    LET p == calculatePortfolioReturns(w, R)
        b == Tup([i \in 1..Len(p) |-> B[i][1]])
        covar == RSum(Tup([i \in 1..Len(p) |->
                     RMul(RSub(p[i], Mean(p)), RSub(b[i], Mean(b)))]))
    IN RDiv(RDiv(covar, Q(Len(p) - 1, 1)),
            RDiv(BenchmarkSquares(B), Q(Len(B) - 1, 1)))

calculateDownsideDeviation(w, R, target) ==
    LET p == calculatePortfolioReturns(w, R)
        below == {i \in 1..Len(p) : RLt(p[i], target)}
        sq == Tup([i \in 1..Len(p) |->
                 IF i \in below THEN RMul(RSub(target, p[i]), RSub(target, p[i]))
                 ELSE Zero])
    IN IF Cardinality(below) > 0
       THEN RSqrt(RDiv(RSum(sq), Q(Cardinality(below), 1)))
       ELSE Zero

calculateExpectedShortfall(w, R, alpha) ==
    LET sorted == SortAscending(calculatePortfolioReturns(w, R))
        cutoff == TailIndex(alpha, Len(sorted))
    IN RDiv(RNeg(RSum(SubSeq(sorted, 1, cutoff))), Q(cutoff, 1))

\* one pass of the drawdown loop after value and peak are updated
DrawdownStepLast(maxDrawdown, value, peak) == RSub(RDiv(value, peak), One)

DrawdownStep(maxDrawdown, value, peak) ==
    StdMin(maxDrawdown, RSub(RDiv(value, peak), One))

StaticDrawdownStep(maxDrawdown, value, peak) ==
    StdMax(maxDrawdown, RDiv(RSub(peak, value), peak))

RECURSIVE DrawdownLoop(_, _, _, _)
DrawdownLoop(p, value, peak, maxDrawdown) ==
    IF Len(p) = 0 THEN maxDrawdown
    ELSE LET v == RMul(value, RAdd(One, p[1]))
             pk == StdMax(peak, v)
         IN DrawdownLoop(Tail(p), v, pk, DrawdownStep(maxDrawdown, v, pk))

RECURSIVE StaticDrawdownLoop(_, _, _, _)
StaticDrawdownLoop(R, value, peak, maxDrawdown) ==
    IF Len(R) = 0 THEN maxDrawdown
    ELSE LET v == RMul(value, RAdd(One, R[1][1]))
             pk == StdMax(peak, v)
         IN StaticDrawdownLoop(Tail(R), v, pk, StaticDrawdownStep(maxDrawdown, v, pk))

calculateMaxDrawdown(w, R) ==
    RNeg(DrawdownLoop(calculatePortfolioReturns(w, R), One, One, Zero))

calculateMaxDrawdownStatic(R) == StaticDrawdownLoop(R, One, One, Zero)

\* a benchmark that moves with the asset, one tenth above it every day
ShiftedSeries(R, c) == Tup([i \in 1..Len(R) |-> <<RAdd(R[i][1], c)>>])

SeriesFunctions ==
    {"calculateSortino", "calculateMaxDrawdown", "calculateValueAtRisk",
     "calculateExpectedShortfall"}

ScalarFunctions ==
    {"calculateInformationRatio", "calculateSharpeRatio", "calculateTreynorRatio"}

InitMetrics ==
    /\ metricPc = "call"
    /\ metricValue = Zero
    /\ \/ /\ metricFn \in SeriesFunctions
          /\ metricWeights \in MetricWeightChoices
          /\ metricReturns \in ReturnsChoices
          /\ metricBenchmark = <<>>
          /\ confidenceLevel \in
                (IF metricFn \in {"calculateValueAtRisk", "calculateExpectedShortfall"}
                 THEN ConfidenceChoices ELSE {Q(95, 100)})
          /\ riskFreeRate \in
                (IF metricFn = "calculateSortino" THEN RiskFreeChoices ELSE {Zero})
          /\ metricNumerator = Zero
          /\ metricDenominator = Zero
       \/ /\ metricFn = "calculateBeta"
          /\ metricWeights \in MetricWeightChoices
          /\ metricReturns \in ReturnsChoices
          /\ metricBenchmark \in
                {metricReturns, Tup([i \in 1..Len(metricReturns) |-> <<Q(1, 20)>>]),
                 ShiftedSeries(metricReturns, Q(1, 10))}
          /\ confidenceLevel = Q(95, 100)
          /\ riskFreeRate = Zero
          /\ metricNumerator = Zero
          /\ metricDenominator = Zero
       \/ /\ metricFn = "calculateMaxDrawdownStatic"
          /\ metricWeights = NoWeights
          /\ metricReturns \in
                {ColumnMatrix(calculatePortfolioReturns(w, R)) :
                    w \in MetricWeightChoices, R \in ReturnsChoices}
          /\ metricBenchmark = <<>>
          /\ confidenceLevel = Q(95, 100)
          /\ riskFreeRate = Zero
          /\ metricNumerator = Zero
          /\ metricDenominator = Zero
       \/ /\ metricFn \in ScalarFunctions
          /\ metricWeights = NoWeights
          /\ metricReturns = <<>>
          /\ metricBenchmark = <<>>
          /\ confidenceLevel = Q(95, 100)
          /\ riskFreeRate \in RiskFreeChoices
          /\ metricNumerator \in NumeratorChoices
          /\ metricDenominator \in DenominatorChoices

MetricsFrame ==
    /\ UNCHANGED <<metricFn, metricWeights, metricReturns, metricBenchmark,
                   confidenceLevel, riskFreeRate, metricNumerator,
                   metricDenominator>>
    /\ UNCHANGED <<solverVars, projVars, engineVars, rebVars, costVars, optVars, searchVars>>

MetricReturned(value) ==
    /\ metricValue' = value
    /\ metricPc' = "returned"
    /\ MetricsFrame

MetricThrew ==
    /\ metricPc' = "threw"
    /\ UNCHANGED metricValue
    /\ MetricsFrame

CalculateBeta ==
    /\ metricPc = "call"
    /\ metricFn = "calculateBeta"
    /\ MetricReturned(calculateBeta(metricWeights, metricReturns, metricBenchmark))

CalculateInformationRatio ==
    /\ metricPc = "call"
    /\ metricFn = "calculateInformationRatio"
    /\ ~RLe(metricDenominator, Zero)
    /\ MetricReturned(RDiv(metricNumerator, metricDenominator))

CalculateInformationRatioThrows ==
    /\ metricPc = "call"
    /\ metricFn = "calculateInformationRatio"
    /\ RLe(metricDenominator, Zero)
    /\ MetricThrew

CalculateSharpeRatio ==
    /\ metricPc = "call"
    /\ metricFn = "calculateSharpeRatio"
    /\ ~RLe(metricDenominator, Zero)
    /\ MetricReturned(RDiv(RSub(metricNumerator, riskFreeRate), metricDenominator))

CalculateSharpeRatioThrows ==
    /\ metricPc = "call"
    /\ metricFn = "calculateSharpeRatio"
    /\ RLe(metricDenominator, Zero)
    /\ MetricThrew

CalculateSortino ==
    /\ metricPc = "call"
    /\ metricFn = "calculateSortino"
    /\ LET downsideDeviation ==
               calculateDownsideDeviation(metricWeights, metricReturns, riskFreeRate)
           averageReturn == Mean(calculatePortfolioReturns(metricWeights, metricReturns))
       IN /\ ~RLe(downsideDeviation, Zero)
          /\ MetricReturned(RDiv(RSub(averageReturn, riskFreeRate), downsideDeviation))

CalculateSortinoThrows ==
    /\ metricPc = "call"
    /\ metricFn = "calculateSortino"
    /\ RLe(calculateDownsideDeviation(metricWeights, metricReturns, riskFreeRate), Zero)
    /\ MetricThrew

CalculateTreynorRatio ==
    /\ metricPc = "call"
    /\ metricFn = "calculateTreynorRatio"
    /\ ~RLe(RAbs(metricDenominator), Q(1, 1000000))
    /\ MetricReturned(RDiv(RSub(metricNumerator, riskFreeRate), metricDenominator))

CalculateTreynorRatioThrows ==
    /\ metricPc = "call"
    /\ metricFn = "calculateTreynorRatio"
    /\ RLe(RAbs(metricDenominator), Q(1, 1000000))
    /\ MetricThrew

CalculateValueAtRisk ==
    /\ metricPc = "call"
    /\ metricFn = "calculateValueAtRisk"
    /\ LET sorted == SortAscending(calculatePortfolioReturns(metricWeights, metricReturns))
           index == TailIndex(confidenceLevel, Len(sorted))
       IN /\ index < Len(sorted)
          /\ MetricReturned(RNeg(sorted[index + 1]))

\* index == size: operator[] reads the element after the last one
CalculateValueAtRiskPastEnd ==
    /\ metricPc = "call"
    /\ metricFn = "calculateValueAtRisk"
    /\ LET sorted == SortAscending(calculatePortfolioReturns(metricWeights, metricReturns))
       IN TailIndex(confidenceLevel, Len(sorted)) >= Len(sorted)
    /\ \/ \E stray \in StrayReturnChoices : MetricReturned(RNeg(stray))
       \/ /\ metricPc' = "fault"
          /\ UNCHANGED metricValue
          /\ MetricsFrame

CalculateExpectedShortfall ==
    /\ metricPc = "call"
    /\ metricFn = "calculateExpectedShortfall"
    /\ MetricReturned(calculateExpectedShortfall(metricWeights, metricReturns,
                                                 confidenceLevel))

CalculateMaxDrawdown ==
    /\ metricPc = "call"
    /\ metricFn = "calculateMaxDrawdown"
    /\ MetricReturned(calculateMaxDrawdown(metricWeights, metricReturns))

CalculateMaxDrawdownStatic ==
    /\ metricPc = "call"
    /\ metricFn = "calculateMaxDrawdownStatic"
    /\ MetricReturned(calculateMaxDrawdownStatic(metricReturns))

NextMetrics ==
    \/ CalculateBeta
    \/ CalculateInformationRatio
    \/ CalculateInformationRatioThrows
    \/ CalculateSharpeRatio
    \/ CalculateSharpeRatioThrows
    \/ CalculateSortino
    \/ CalculateSortinoThrows
    \/ CalculateTreynorRatio
    \/ CalculateTreynorRatioThrows
    \/ CalculateValueAtRisk
    \/ CalculateValueAtRiskPastEnd
    \/ CalculateExpectedShortfall
    \/ CalculateMaxDrawdown
    \/ CalculateMaxDrawdownStatic

\* the portfolio return series p of the call
PortfolioSeries ==
    IF metricWeights = NoWeights
    THEN Tup([i \in 1..Len(metricReturns) |-> metricReturns[i][1]])
    ELSE calculatePortfolioReturns(metricWeights, metricReturns)

\* the condition under which the ratio's denominator vanishes
DenominatorVanishes ==
    \/ /\ metricFn \in {"calculateInformationRatio", "calculateSharpeRatio"}
       /\ RLe(metricDenominator, Zero)
    \/ /\ metricFn = "calculateSortino"
       /\ RLe(calculateDownsideDeviation(metricWeights, metricReturns, riskFreeRate), Zero)
    \/ /\ metricFn = "calculateTreynorRatio"
       /\ RLt(RAbs(metricDenominator), Q(1, 1000000))
    \/ /\ metricFn = "calculateBeta"
       /\ BenchmarkSquares(metricBenchmark) = Zero
    \/ /\ metricFn = "calculateExpectedShortfall"
       /\ TailIndex(confidenceLevel, Len(metricReturns)) = 0

\* C14: every risk ratio whose denominator can vanish (information ratio,
\* Sharpe, Sortino, Treynor, beta, expected shortfall) fails with an error on
\* that condition instead of producing an infinite or NaN value.
C14_VanishingDenominatorFails ==
    (metricPc # "call" /\ DenominatorVanishes) => metricPc = "threw"

\* C14: beta against a benchmark that never moves returned NaN
C14_FlatBenchmarkBetaReturnedNaN ==
    /\ metricPc = "returned"
    /\ metricFn = "calculateBeta"
    /\ Len(metricBenchmark) = 2
    /\ metricBenchmark[1] = metricBenchmark[2]
    /\ IsNaN(metricValue)

\* C14: the guarded ratios do throw (information ratio at tracking error 0)
C14_GuardedRatioThrew ==
    /\ metricPc = "threw"
    /\ metricFn = "calculateInformationRatio"
    /\ metricDenominator = Zero

\* the benchmark series of the call as the vector checkBetaDeviation reads
BenchmarkColumn == Tup([i \in 1..Len(metricBenchmark) |-> metricBenchmark[i][1]])

\* C22: the beta of the projector's beta-deviation check equals, for every
\* weight vector, returns window and benchmark series, the beta of
\* RiskMetrics::calculateBeta (mean-centred sample covariance over mean-centred
\* sample variance of the benchmark).
C22_ProjectorBetaIsMetricBeta ==
    (metricPc = "returned" /\ metricFn = "calculateBeta") =>
        BetaOf(metricWeights, metricReturns, BenchmarkColumn) = metricValue

\* C22: returns (0.10, 0.05) against benchmark (0.20, 0.15): calculateBeta
\* returned 1, the projector's beta is 0.44 and its check rejects the book
C22_CentredOneUncentredBelowHalf ==
    /\ metricPc = "returned" /\ metricFn = "calculateBeta"
    /\ metricWeights = <<One>>
    /\ metricReturns = <<<<Q(1, 10)>>, <<Q(1, 20)>>>>
    /\ BenchmarkColumn = <<Q(1, 5), Q(3, 20)>>
    /\ metricValue = One
    /\ BetaOf(metricWeights, metricReturns, BenchmarkColumn) = Q(44, 100)
    /\ ~checkBetaDeviation(metricWeights, metricReturns, BenchmarkColumn, DefaultLimits)
    /\ RLe(RAbs(RSub(metricValue, One)), DefaultLimits.maxBetaDeviation)

\* C15: for every confidence level in [0,1] and every non-empty series of
\* length T, calculateValueAtRisk reads index floor((1-alpha)*T) inside the
\* sorted series and returns the negated element; at alpha = 1 that is the
\* negated minimum, at alpha = 0 the negated maximum.
C15_VaRReadsInsideSeries ==
    (metricFn = "calculateValueAtRisk" /\ metricPc # "call") =>
        LET sorted == SortAscending(PortfolioSeries)
            T == Len(sorted)
            index == TailIndex(confidenceLevel, T)
        IN /\ metricPc = "returned"
           /\ index < T
           /\ metricValue = RNeg(sorted[index + 1])
           /\ confidenceLevel = One =>
                 \A t \in 1..T : RLe(RNeg(PortfolioSeries[t]), metricValue)
           /\ confidenceLevel = Zero =>
                 \A t \in 1..T : RGe(RNeg(PortfolioSeries[t]), metricValue)

\* C15: at alpha = 0 the call returned a value that is no element of the series
C15_ZeroConfidenceReadPastEnd ==
    /\ metricFn = "calculateValueAtRisk"
    /\ metricPc = "returned"
    /\ confidenceLevel = Zero
    /\ Len(metricReturns) = 2
    /\ TailIndex(confidenceLevel, Len(metricReturns)) = Len(metricReturns)
    /\ \A t \in 1..Len(PortfolioSeries) : metricValue # RNeg(PortfolioSeries[t])

\* the cumulative value path value(0) = 1, value(t) = value(t-1) * (1 + p[t])
RECURSIVE ValueAt(_, _)
ValueAt(p, t) == IF t = 0 THEN One ELSE RMul(ValueAt(p, t - 1), RAdd(One, p[t]))

\* the running maximum of the path
RECURSIVE PeakAt(_, _)
PeakAt(p, t) == IF t = 0 THEN One ELSE StdMax(PeakAt(p, t - 1), ValueAt(p, t))

DrawdownAt(p, t) == RDiv(RSub(PeakAt(p, t), ValueAt(p, t)), PeakAt(p, t))

IsLargestDrawdown(p, d) ==
    /\ \E t \in 0..Len(p) : d = DrawdownAt(p, t)
    /\ \A t \in 0..Len(p) : RLe(DrawdownAt(p, t), d)

FinalOverPeak(p) == RSub(One, RDiv(ValueAt(p, Len(p)), PeakAt(p, Len(p))))

DrawdownReturned ==
    /\ metricPc = "returned"
    /\ metricFn \in {"calculateMaxDrawdown", "calculateMaxDrawdownStatic"}

\* C16 (amended): calculateMaxDrawdown returns the largest (peak - value)/peak
\* along the cumulative value path; it is 0 when every p[t] > 0, equals
\* 1 - final/peak when every p[t] lies in [-1, 0), and is 0.2440 for the
\* returns (+0.10, -0.20, +0.05, -0.10); the two implementations agree.
C16_MaxDrawdownOnNonIncreasingPath ==
    DrawdownReturned =>
        LET p == PortfolioSeries
        IN /\ IsLargestDrawdown(p, metricValue)
           /\ metricValue = RNeg(DrawdownLoop(p, One, One, Zero))
           /\ metricValue = calculateMaxDrawdownStatic(ColumnMatrix(p))
           /\ (\A t \in 1..Len(p) : RGt(p[t], Zero)) => metricValue = Zero
           /\ (\A t \in 1..Len(p) : RGe(p[t], Q(-1, 1)) /\ RLt(p[t], Zero)) =>
                 metricValue = FinalOverPeak(p)
           /\ p = DrawdownExample => metricValue = Q(2440, 10000)

\* C16: calculateMaxDrawdown returns the largest (peak - value)/peak along the
\* cumulative value path; it is 0 when every p[t] > 0, equals 1 - final/peak
\* when every p[t] < 0, and is 0.2440 for (+0.10, -0.20, +0.05, -0.10); the
\* two implementations agree.
C16_MaxDrawdownOnEveryFallingSeries ==
    DrawdownReturned =>
        LET p == PortfolioSeries
        IN /\ IsLargestDrawdown(p, metricValue)
           /\ metricValue = RNeg(DrawdownLoop(p, One, One, Zero))
           /\ metricValue = calculateMaxDrawdownStatic(ColumnMatrix(p))
           /\ (\A t \in 1..Len(p) : RGt(p[t], Zero)) => metricValue = Zero
           /\ (\A t \in 1..Len(p) : RLt(p[t], Zero)) =>
                 metricValue = FinalOverPeak(p)
           /\ p = DrawdownExample => metricValue = Q(2440, 10000)

\* C16: the example series returned 0.2440 = (1.10 - 0.8316)/1.10
C16_ExampleDrawdownReturned ==
    /\ metricPc = "returned"
    /\ metricFn = "calculateMaxDrawdown"
    /\ metricWeights = <<One>>
    /\ PortfolioSeries = DrawdownExample
    /\ metricValue = Q(2440, 10000)
    /\ ValueAt(DrawdownExample, 4) = Q(8316, 10000)

\* C16: a series of returns below -100% whose largest drawdown is not at its end
C16_ReboundAfterSignFlip ==
    /\ DrawdownReturned
    /\ PortfolioSeries = <<Q(-2, 1), Q(-2, 1)>>
    /\ metricValue = Q(2, 1)
    /\ FinalOverPeak(PortfolioSeries) = Zero

-----------------------------------------------------------------------------
(* Each part of the program when a specification does not exercise it *)

IdleSolver ==
    /\ mu = <<>>
    /\ sigma = <<>>
    /\ targetReturn = Zero
    /\ weights = NoWeights
    /\ optMu = Zero
    /\ optSigmaSq = Zero
    /\ solverPc = "idle"

IdleProjector ==
    /\ limits_ = DefaultLimits
    /\ lastStatus_ = NewConstraintStatus
    /\ proposedWeights = NoWeights
    /\ currentWeights = NoWeights
    /\ returns = <<>>
    /\ covariance = <<>>
    /\ benchmarkReturns = <<>>
    /\ sectorMap = <<>>
    /\ adv = <<>>
    /\ iteration = 0
    /\ constraintsSatisfied = FALSE
    /\ enforcePc = "idle"
    /\ enforceResult = NoWeights
    /\ callNo = 0
    /\ firstProposed = NoWeights
    /\ firstResult = NoWeights

IdleEngine ==
    /\ dates_ = <<>>
    /\ teWeights_ = NoWeights
    /\ covariance_ = <<0, 0>>
    /\ dailyReturn_ = Zero
    /\ benchmarkReturn_ = Zero

IdleRebalancer ==
    /\ rebalanceDates_ = <<>>
    /\ currentWeights_ = NoWeights
    /\ currentPeriod_ = 0
    /\ mainPc = "idle"
    /\ loopIdx = 0
    /\ tickOutcome = "none"
    /\ tickOldWeights = NoWeights
    /\ tickCost = Zero

IdleCost ==
    /\ costs_ = [fixedCommission |-> Zero, variableCommission |-> Zero,
                 slippageModel |-> Zero, marketImpact |-> Zero]
    /\ avgVolumes_ = <<>>
    /\ daysToExecute_ = 1
    /\ decayRate_ = Q(1, 10)
    /\ costCurrentWeights = NoWeights
    /\ costTargetWeights = NoWeights
    /\ portfolioValue = Zero
    /\ totalCost = Zero
    /\ costPc = "idle"
    /\ quoteFn = "none"
    /\ quoteTradeSize = Zero
    /\ quoteAvgVolume = Zero
    /\ quoteValue = Zero

-----------------------------------------------------------------------------
(* PortfolioOptimizer::optimizeWithConstraints: the random search, one step   *)
(* per loop iteration, with the validator and the cost model it consults     *)

\* Bound of params.maxIterations: 0..MaxSearchIterations
MaxSearchIterations == 3

\* RiskConstraints::Limits of the validator; a two-asset book cannot meet the
\* default maxPositionSize of 0.2 and sum to one, so the cap is three quarters
ValidatorLimits ==
    [maxPositionSize |-> Q(3, 4), minPositionSize |-> Zero,
     maxSectorExposure |-> Q(9, 10), maxVolatility |-> Q(1, 4),
     maxDrawdown |-> Q(15, 100), minLiquidity |-> Q(2, 1)]

\* the market data of the data manager, the validator and the cost model
SearchMeanReturns == <<Q(1, 10), Q(1, 20)>>

SearchCovariance == << <<Q(4, 100), Zero>>, <<Zero, Q(1, 100)>> >>

SearchDailyReturns == << <<Q(1, 100), Q(-1, 100)>>, <<Q(-2, 100), Q(1, 100)>> >>

SearchSectorExposures == <<{1}, {2}>>

SearchVolumes == <<Q(1000, 1), Q(1000, 1)>>

SearchPortfolioValue == Q(200, 1)

SearchCosts ==
    [fixedCommission |-> Zero, variableCommission |-> Q(1, 10000),
     slippageModel |-> Zero, marketImpact |-> Zero]

NaNWeights == <<NaN, NaN>>

\* what generateCandidateWeights can hand back: non-negative weights that sum
\* to one, or NaN in every row when the clipped perturbation sums to zero
CandidateChoices ==
    {<<Q(1, 2), Q(1, 2)>>, <<Q(3, 4), Q(1, 4)>>, <<Q(1, 4), Q(3, 4)>>,
     <<One, Zero>>, <<Zero, One>>, NaNWeights}

SearchStartChoices == {<<Q(1, 2), Q(1, 2)>>, <<Zero, One>>, <<Zero, Zero>>}

SearchParameterChoices ==
    [riskAversion : {Zero, Q(3, 1)},
     maxIterations : 0..MaxSearchIterations,
     convergenceTolerance : {Zero, Q(1, 100000000), One},
     useTransactionCosts : BOOLEAN,
     useSectorConstraints : BOOLEAN,
     maxTradingCost : {Q(1, 100), One}]

\* RiskConstraints::checkPositionLimits of the validator
validatorCheckPositionLimits(w, lim) ==
    /\ \A i \in 1..Len(w) :
          ~(RLt(w[i], lim.minPositionSize) \/ RGt(w[i], lim.maxPositionSize))
    /\ RLt(RAbs(RSub(RSum(w), One)), Q(1, 1000000))

\* RiskConstraints::checkSectorExposures; a sector is the set of its stocks' rows
checkSectorExposures(w, sectorExposures, lim) ==
    \A s \in 1..Len(sectorExposures) :
        ~RGt(RSum(Tup([i \in 1..Len(w) |->
                          IF i \in sectorExposures[s] THEN w[i] ELSE Zero])),
             lim.maxSectorExposure)

calculatePortfolioVolatility(w, cov) == RSqrt(QuadForm(w, cov))

RECURSIVE validatorDrawdownLoop(_, _, _, _, _, _)
validatorDrawdownLoop(i, w, R, value, peak, maxDrawdown) ==
    IF i > Len(R) THEN maxDrawdown
    ELSE LET v == RMul(value, RAdd(One, Dot(R[i], w)))
             pk == StdMax(peak, v)
         IN validatorDrawdownLoop(i + 1, w, R, v, pk,
                                  StdMax(maxDrawdown, RDiv(RSub(pk, v), pk)))

validatorMaxDrawdown(w, R) == validatorDrawdownLoop(1, w, R, One, One, Zero)

checkLiquidityConstraint(w, value, volumes, lim) ==
    \A i \in 1..Len(w) :
        ~RGt(RMul(w[i], value), RMul(volumes[i], lim.minLiquidity))

validatePortfolio(w, sectorExposures) ==
    /\ validatorCheckPositionLimits(w, ValidatorLimits)
    /\ checkSectorExposures(w, sectorExposures, ValidatorLimits)
    /\ ~RGt(calculatePortfolioVolatility(w, SearchCovariance), ValidatorLimits.maxVolatility)
    /\ ~RGt(validatorMaxDrawdown(w, SearchDailyReturns), ValidatorLimits.maxDrawdown)
    /\ checkLiquidityConstraint(w, SearchPortfolioValue, SearchVolumes, ValidatorLimits)

calculatePortfolioReturn(w) == Dot(w, SearchMeanReturns)

calculatePortfolioRisk(w) == RSqrt(QuadForm(w, SearchCovariance))

tradingCost(cur, cand) ==
    calculateTotalCost(cur, cand, SearchPortfolioValue, SearchCosts, SearchVolumes, 1, Zero)

\* lines 22-41: bool constraintsViolated after both enabled checks
ConstraintsViolated(cur, cand, p) ==
    \/ p.useSectorConstraints /\ ~validatePortfolio(cand, SearchSectorExposures)
    \/ p.useTransactionCosts /\ RGt(tradingCost(cur, cand), p.maxTradingCost)

Utility(ret, risk, p) == RSub(ret, RMul(p.riskAversion, risk))

isImprovementOnReturn(newReturn, newRisk, curReturn, curRisk, p) ==
    RGt(newReturn, curReturn)

isImprovement(newReturn, newRisk, curReturn, curRisk, p) ==
    RGt(Utility(newReturn, newRisk, p), Utility(curReturn, curRisk, p))

RECURSIVE MaxDiffFrom(_, _, _, _)
MaxDiffFrom(i, maxDiff, oldWeights, newWeights) ==
    IF i > Len(oldWeights) THEN maxDiff
    ELSE MaxDiffFrom(i + 1, StdMax(maxDiff, RAbs(RSub(oldWeights[i], newWeights[i]))),
                     oldWeights, newWeights)

checkConvergence(oldWeights, newWeights, tolerance) ==
    RLt(MaxDiffFrom(1, Zero, oldWeights, newWeights), tolerance)

\* lines 13-18: the state on entry to the loop
InitSearch ==
    /\ searchCurrentWeights \in SearchStartChoices
    /\ params \in SearchParameterChoices
    /\ optimalWeights = searchCurrentWeights
    /\ currentReturn = calculatePortfolioReturn(searchCurrentWeights)
    /\ currentRisk = calculatePortfolioRisk(searchCurrentWeights)
    /\ iter = 0
    /\ candidateWeights = NoWeights
    /\ constraintsViolated = FALSE
    /\ searchPc = "loop"
    /\ searchResult = NoWeights

SearchFrame ==
    UNCHANGED <<solverVars, projVars, engineVars, rebVars, costVars, optVars, metricVars>>

\* lines 21-61: one iteration; a break at line 59 goes on to the return of line 63
SearchIteration ==
    /\ searchPc = "loop"
    /\ iter < params.maxIterations
    /\ \E cand \in CandidateChoices :
          LET violated == ConstraintsViolated(searchCurrentWeights, cand, params)
              candidateReturn == calculatePortfolioReturn(cand)
              candidateRisk == calculatePortfolioRisk(cand)
              accepted == /\ ~violated
                          /\ isImprovement(candidateReturn, candidateRisk,
                                           currentReturn, currentRisk, params)
              held == IF accepted THEN cand ELSE optimalWeights
          IN /\ candidateWeights' = cand
             /\ constraintsViolated' = violated
             /\ optimalWeights' = held
             /\ currentReturn' = IF accepted THEN candidateReturn ELSE currentReturn
             /\ currentRisk' = IF accepted THEN candidateRisk ELSE currentRisk
             /\ IF checkConvergence(searchCurrentWeights, held, params.convergenceTolerance)
                THEN /\ searchPc' = "returned"
                     /\ searchResult' = held
                     /\ iter' = iter
                ELSE /\ searchPc' = "loop"
                     /\ searchResult' = searchResult
                     /\ iter' = iter + 1
    /\ UNCHANGED <<searchCurrentWeights, params>>
    /\ SearchFrame

\* line 21 with iter == params.maxIterations, then line 63
SearchExhausted ==
    /\ searchPc = "loop"
    /\ iter >= params.maxIterations
    /\ searchPc' = "returned"
    /\ searchResult' = optimalWeights
    /\ UNCHANGED <<searchCurrentWeights, params, optimalWeights, currentReturn,
                   currentRisk, iter, candidateWeights, constraintsViolated>>
    /\ SearchFrame

NextSearch ==
    \/ SearchIteration
    \/ SearchExhausted

\* the enabled checks of lines 28-41, as the claim words them
PassedEnabledChecks(cur, cand, p) ==
    /\ p.useSectorConstraints => validatePortfolio(cand, SearchSectorExposures)
    /\ p.useTransactionCosts => RLe(tradingCost(cur, cand), p.maxTradingCost)

HeldUtility == Utility(currentReturn, currentRisk, params)

\* C29: the vector returned by optimizeWithConstraints is the input
\* currentWeights or a candidate that passed every enabled check (validation
\* when useSectorConstraints, trading cost <= maxTradingCost when
\* useTransactionCosts) and had strictly higher utility than the weights it
\* replaced; the utility of the held weights never decreases during the loop.
C29_HeldWeightsAreCheckedImprovements ==
    [][searchPc = "loop" =>
          /\ \/ /\ optimalWeights' = optimalWeights
                /\ Utility(currentReturn', currentRisk', params') = HeldUtility
             \/ /\ optimalWeights' = candidateWeights'
                /\ ~constraintsViolated'
                /\ PassedEnabledChecks(searchCurrentWeights, candidateWeights', params)
                /\ RGt(Utility(currentReturn', currentRisk', params'), HeldUtility)
          /\ currentReturn' = calculatePortfolioReturn(optimalWeights')
          /\ currentRisk' = calculatePortfolioRisk(optimalWeights')
          /\ \/ optimalWeights' = searchCurrentWeights
             \/ PassedEnabledChecks(searchCurrentWeights, optimalWeights', params)
          /\ searchPc' = "returned" => searchResult' = optimalWeights']_vars

\* C29: a call that replaced its held weights twice and returned the second
\* replacement, with both checks enabled
C29_ReturnedSecondImprovement ==
    /\ searchPc = "returned"
    /\ params.useSectorConstraints /\ params.useTransactionCosts
    /\ searchCurrentWeights = <<Zero, One>>
    /\ searchResult = <<Q(1, 2), Q(1, 2)>>
    /\ iter = 2

\* iterations the loop has run when the call returns: a break leaves iter at the
\* index of the iteration that broke
BrokeEarly ==
    /\ searchPc = "returned"
    /\ iter < params.maxIterations

\* C30: the loop runs at most maxIterations iterations and stops early only
\* when the weights have converged; it does not stop early merely because the
\* first candidate was rejected and the held weights still equal the initial
\* weights.
C30_NoEarlyStopOnFirstRejection ==
    /\ iter <= params.maxIterations
    /\ ~(/\ BrokeEarly
         /\ iter = 0
         /\ params.maxIterations > 1
         /\ optimalWeights = searchCurrentWeights
         /\ optimalWeights # candidateWeights)

\* C30: defaults (riskAversion 3, tolerance 1e-8), three iterations allowed; the
\* first candidate (1, 0) exceeds the position cap and the call returns the
\* initial weights after that one iteration
C30_FirstRejectionEndedSearch ==
    /\ searchPc = "returned"
    /\ iter = 0
    /\ params.maxIterations = 3
    /\ params.convergenceTolerance = Q(1, 100000000)
    /\ params.useSectorConstraints
    /\ searchCurrentWeights = <<Q(1, 2), Q(1, 2)>>
    /\ candidateWeights = <<One, Zero>>
    /\ constraintsViolated
    /\ searchResult = searchCurrentWeights

-----------------------------------------------------------------------------
IdleOptimizer ==
    /\ engineSource = "weight.cpp"
    /\ optPc = "idle"
    /\ optTrace = <<>>
    /\ optPeriod = -1
    /\ optCalls = 0
    /\ windowMeans = <<>>
    /\ windowCovariance = <<>>
    /\ windowExcessCovariance = <<>>
    /\ covarianceMat_ = <<>>
    /\ excessCovariance_ = <<>>
    /\ efficientFrontierPoints_ = <<>>
    /\ sweepIdx = 0
    /\ sweepFailed = FALSE
    /\ mptWeights_ = NoWeights
    /\ dailyVol_ = Zero
    /\ trackingError_ = Zero

IdleMetrics ==
    /\ metricFn = "none"
    /\ metricWeights = NoWeights
    /\ metricReturns = <<>>
    /\ metricBenchmark = <<>>
    /\ confidenceLevel = Q(95, 100)
    /\ metricNumerator = Zero
    /\ metricDenominator = Zero
    /\ metricPc = "idle"
    /\ metricValue = Zero
    /\ riskFreeRate = Zero

IdleSearch ==
    /\ searchCurrentWeights = NoWeights
    /\ params = [riskAversion |-> Q(3, 1), maxIterations |-> 1000,
                 convergenceTolerance |-> Q(1, 100000000), useTransactionCosts |-> TRUE,
                 useSectorConstraints |-> TRUE, maxTradingCost |-> Q(1, 100)]
    /\ optimalWeights = NoWeights
    /\ currentReturn = Zero
    /\ currentRisk = Zero
    /\ iter = 0
    /\ candidateWeights = NoWeights
    /\ constraintsViolated = FALSE
    /\ searchPc = "idle"
    /\ searchResult = NoWeights

-----------------------------------------------------------------------------
(* Specifications *)

InitSolverSpec ==
    InitSolver /\ IdleProjector /\ IdleEngine /\ IdleRebalancer /\ IdleCost
        /\ IdleOptimizer /\ IdleMetrics
        /\ IdleSearch

SpecSolver == InitSolverSpec /\ [][NextSolver]_vars

InitProjectorSpec ==
    InitProjector /\ IdleSolver /\ IdleEngine /\ IdleRebalancer /\ IdleCost
        /\ IdleOptimizer /\ IdleMetrics
        /\ IdleSearch

SpecProjector == InitProjectorSpec /\ [][NextProjector]_vars

InitRebalancerSpec ==
    InitRebalancer /\ IdleSolver /\ IdleProjector /\ IdleCost
        /\ IdleOptimizer /\ IdleMetrics
        /\ IdleSearch

SpecRebalancer == InitRebalancerSpec /\ [][NextRebalancer]_vars

InitCostSpec ==
    InitCost /\ IdleSolver /\ IdleProjector /\ IdleEngine /\ IdleRebalancer
        /\ IdleOptimizer /\ IdleMetrics
        /\ IdleSearch

SpecCost == InitCostSpec /\ [][NextCost]_vars

InitOptimizerSpec ==
    InitOptimizer /\ IdleSolver /\ IdleProjector /\ IdleRebalancer /\ IdleCost
        /\ IdleMetrics
        /\ IdleSearch

SpecOptimizer == InitOptimizerSpec /\ [][NextOptimizer]_vars

InitMetricsSpec ==
    InitMetrics /\ IdleSolver /\ IdleProjector /\ IdleEngine /\ IdleRebalancer
        /\ IdleCost /\ IdleOptimizer
        /\ IdleSearch

SpecMetrics == InitMetricsSpec /\ [][NextMetrics]_vars

InitSearchSpec ==
    InitSearch /\ IdleSolver /\ IdleProjector /\ IdleEngine /\ IdleRebalancer
        /\ IdleCost /\ IdleOptimizer /\ IdleMetrics

SpecSearch == InitSearchSpec /\ [][NextSearch]_vars

=============================================================================
